---------------------------- MODULE Spec2Model ----------------------------
(***************************************************************************)
(* A model of rusty-tags' incremental tag build: the dependency graph      *)
(* (types.rs, DepTree), the invalidation planner and the two-phase         *)
(* scheduler of update_tags (tags.rs), the merge/copy/rename protocol of   *)
(* update_tags_internal and merge_tags, and the per-source lock file       *)
(* (types.rs, SourceLock).                                                 *)
(*                                                                         *)
(* SourceIds are the indices 1..n of a graph's sources (the code counts    *)
(* from 0).  A tag file is a sequence of lines; a line is a natural        *)
(* number whose numeric order is the byte order of the text it stands for: *)
(*   0          the empty line                                             *)
(*   1, 2       the two "!_TAG_FILE_FORMAT" / "!_TAG_FILE_SORTED" headers  *)
(*   3 ..       tag lines                                                  *)
(*   IncludeLine(d)  emacs "<cached file of d>,include" lines              *)
(***************************************************************************)
EXTENDS Integers, Sequences, FiniteSets, TLC

\* ------------------------------------------------------------------ bounds
\* largest num_threads a Config of the model carries
MaxThreads == 2
\* consecutive runs of update_tags one process performs
MaxRuns == 2
\* concurrent rusty-tags processes sharing the cache (ConcSpec, LockSpec)
MaxProcs == 2

Procs == 1..MaxProcs

\* ------------------------------------------------------- sequence helpers
Range(s) == { s[i] : i \in DOMAIN s }

RECURSIVE SeqOfSet(_)
\* the elements of a finite set of numbers, ascending
SeqOfSet(S) ==
    IF S = {} THEN << >>
    ELSE LET m == CHOOSE x \in S : \A y \in S : x <= y
         IN  <<m>> \o SeqOfSet(S \ {m})

RECURSIVE Insert(_, _)
\* x inserted into the ascending sequence s, duplicates kept
Insert(x, s) ==
    IF s = << >> THEN <<x>>
    ELSE IF x <= Head(s) THEN <<x>> \o s
    ELSE <<Head(s)>> \o Insert(x, Tail(s))

RECURSIVE sort_unstable(_)
sort_unstable(s) == IF s = << >> THEN << >> ELSE Insert(Head(s), sort_unstable(Tail(s)))

RECURSIVE Dedup(_)
\* Vec::dedup: of every run of equal adjacent elements the first is kept
Dedup(s) ==
    IF Len(s) <= 1 THEN s
    ELSE IF s[1] = s[2] THEN Dedup(Tail(s))
    ELSE <<s[1]>> \o Dedup(Tail(s))

RECURSIVE Concat(_)
Concat(ss) == IF DOMAIN ss = {} THEN << >> ELSE Head(ss) \o Concat(Tail(ss))

\* ----------------------------------------------------------- the metadata
(* `cargo metadata` as dependency_tree reads it.  A package name is a      *)
(* number whose order is the order of the names; a version is a number; a  *)
(* requirement is the set of versions it matches.  A JSON object is a       *)
(* record, and a key it lacks is a field the record does not have.  A      *)
(* directory is a number; a path says which directory it leads to and what *)
(* is found there.                                                         *)
Req(n) == [ name |-> n, req |-> {1} ]

\* a target of kinds `kinds` whose src_path is the absolute path of a file
\* in directory d
Target(kinds, d) == [ kind |-> kinds, src_path |-> [ form |-> "abs_file", dir |-> d ] ]

\* a package of version 1 with one lib target under its manifest directory,
\* depending on `ds`
Pkg(n, ds) ==
    [ name |-> n, version |-> 1,
      targets |-> << Target(<<"lib">>, n) >>,
      manifest_path |-> [ dir |-> n, is_dir |-> TRUE ],
      dependencies |-> [ i \in DOMAIN ds |-> Req(ds[i]) ] ]

\* the object without the key k
Without(object, k) == [ f \in DOMAIN object \ {k} |-> object[f] ]

\* kind_str.contains("lib")
contains_lib(kind_str) == kind_str \in {"lib", "rlib", "dylib", "cdylib", "staticlib"}

\* source_path, lines 196-206: the kinds that are not skipped
accepted_kind(kind_str, is_root) ==
    IF is_root
    THEN kind_str = "bin" \/ contains_lib(kind_str) \/ kind_str = "proc-macro"
    ELSE contains_lib(kind_str)

\* a source_path without the is_dir test of line 222
target_dir_unchecked(target, manifest_path) ==
    IF "src_path" \notin DOMAIN target THEN [ is |-> "Err", dir |-> 0 ]
    ELSE IF target.src_path.form = "relative"
         THEN [ is |-> "Some", dir |-> manifest_path.dir ]
         ELSE [ is |-> "Some", dir |-> target.src_path.dir ]

\* source_path, lines 208-228: the directory of the target's src_path, or an
\* error
target_dir(target, manifest_path) ==
    IF "src_path" \notin DOMAIN target THEN [ is |-> "Err", dir |-> 0 ]
    ELSE LET src_path == target.src_path
         IN  IF src_path.form = "abs_file" THEN [ is |-> "Some", dir |-> src_path.dir ]
             ELSE IF src_path.form = "relative"
             THEN IF manifest_path.is_dir THEN [ is |-> "Some", dir |-> manifest_path.dir ]
                  ELSE [ is |-> "Err", dir |-> 0 ]
             ELSE IF src_path.form = "abs_dir" THEN [ is |-> "Some", dir |-> src_path.dir ]
             ELSE [ is |-> "Err", dir |-> 0 ]

RECURSIVE scan_targets(_, _, _)
\* source_path, lines 189-232: the loops over the targets and their kinds
scan_targets(targets, manifest_path, is_root) ==
    IF targets = << >> THEN [ is |-> "None", dir |-> 0 ]
    ELSE LET target == Head(targets)
         IN  IF "kind" \notin DOMAIN target THEN [ is |-> "Err", dir |-> 0 ]
             ELSE IF \E i \in DOMAIN target.kind : accepted_kind(target.kind[i], is_root)
             THEN target_dir(target, manifest_path)
             ELSE scan_targets(Tail(targets), manifest_path, is_root)

\* source_path(config, package, is_root): Err, None or Some(directory)
source_path(package, is_root) ==
    IF "targets" \notin DOMAIN package \/ "manifest_path" \notin DOMAIN package
    THEN [ is |-> "Err", dir |-> 0 ]
    ELSE scan_targets(package.targets, package.manifest_path, is_root)

\* workspace_members: one SourceReq per member
Members(ms) == [ i \in DOMAIN ms |-> Req(ms[i]) ]

RECURSIVE InsertReq(_, _)
InsertReq(x, s) ==
    IF s = << >> THEN <<x>>
    ELSE IF x.name <= Head(s).name THEN <<x>> \o s
    ELSE <<Head(s)>> \o InsertReq(x, Tail(s))

RECURSIVE sort_reqs(_)
\* dependencies(package), line 171: source_reqs.sort_unstable()
sort_reqs(s) == IF s = << >> THEN << >> ELSE InsertReq(Head(s), sort_reqs(Tail(s)))

\* find_package: the index of the first package of that name whose version
\* the requirement matches, or 0, or -1 for the error of a package without
\* name or version met before it
find_package(source_req, packages) ==
    LET stops == { i \in DOMAIN packages :
                     \/ "name" \notin DOMAIN packages[i]
                     \/ "version" \notin DOMAIN packages[i]
                     \/ /\ packages[i].name = source_req.name
                        /\ packages[i].version \in source_req.req }
        first == CHOOSE i \in stops : \A j \in stops : i <= j
    IN  IF stops = {} THEN 0
        ELSE IF {"name", "version"} \subseteq DOMAIN packages[first] THEN first
        ELSE -1

\* a lookup that tries only the version entered first under the name
cached_tree_first_version_only(source_req, source_map) ==
    LET named == { i \in DOMAIN source_map : source_map[i].name = source_req.name }
        first == CHOOSE i \in named : \A j \in named : i <= j
    IN  IF named = {} THEN 0
        ELSE IF source_map[first].version \in source_req.req THEN source_map[first].id
        ELSE 0

\* build_dep_tree, lines 39-46: the id source_map holds for a source of that
\* name with a version the requirement matches, or 0
cached_tree(source_req, source_map) ==
    LET hits == { i \in DOMAIN source_map :
                    /\ source_map[i].name = source_req.name
                    /\ source_map[i].version \in source_req.req }
    IN  IF hits = {} THEN 0
        ELSE source_map[CHOOSE i \in hits : \A j \in hits : i <= j].id

\* DepTree::new and an empty source_map
EmptyTree ==
    [ source_map |-> << >>, roots |-> << >>, sources |-> << >>, deps |-> << >>,
      parents |-> << >>, is_root |-> << >>, dir |-> << >> ]

\* DepTree::new_source, types.rs:79-85: None is pushed onto sources,
\* dependencies and parents; an absent list reads as the empty one
new_source(tree) ==
    [ tree EXCEPT !.sources = Append(@, FALSE), !.deps = Append(@, << >>),
                  !.parents = Append(@, << >>) ]

\* a set_source that enters the source and its dependencies and leaves the
\* parents lists as they are
set_source_without_parents(tree, src_id, dep_ids) ==
    [ tree EXCEPT !.sources[src_id] = TRUE, !.deps[src_id] = dep_ids ]

\* DepTree::set_source, types.rs:91-110: the source is entered, src_id is
\* pushed onto parents[dep] once for every element of the dependencies
set_source(tree, src_id, dep_ids) ==
    [ tree EXCEPT
        !.sources[src_id] = TRUE,
        !.deps[src_id] = dep_ids,
        !.parents = [ d \in DOMAIN @ |->
                      @[d] \o [ k \in DOMAIN SelectSeq(dep_ids, LAMBDA x : x = d) |->
                                src_id ] ] ]

RECURSIVE build_dep_tree(_, _, _, _, _)
RECURSIVE build_deps(_, _, _, _, _)
\* build_dep_tree: st holds source_map and dep_tree; the value is the state
\* after the call, the SourceId it returns (0 for None) and whether it
\* returns an error.  What a call returns is bound once, as the element of a
\* singleton, and used from there.
build_dep_tree(omit_deps, source_req, level, packages, st) ==
    LET reuse == cached_tree(source_req, st.source_map)
        pi    == find_package(source_req, packages)
        path  == source_path(packages[pi], level = 0)
    IN  IF reuse # 0 THEN [ st |-> st, id |-> reuse, err |-> FALSE ]
        ELSE IF pi = -1 THEN [ st |-> st, id |-> 0, err |-> TRUE ]
        ELSE IF pi = 0 THEN [ st |-> st, id |-> 0, err |-> FALSE ]
        ELSE IF path.is = "Err" THEN [ st |-> st, id |-> 0, err |-> TRUE ]
        ELSE IF path.is = "None" THEN [ st |-> st, id |-> 0, err |-> FALSE ]
        ELSE LET package   == packages[pi]
                 source_id == Len(st.deps) + 1
                 st1 == [ new_source(st) EXCEPT
                            !.source_map = Append(@, [ name |-> source_req.name,
                                                       version |-> package.version,
                                                       id |-> source_id ]),
                            !.is_root = Append(@, level = 0),
                            !.dir = Append(@, path.dir) ]
             IN  IF ~omit_deps /\ "dependencies" \notin DOMAIN package
                 THEN [ st |-> st1, id |-> 0, err |-> TRUE ]
                 ELSE CHOOSE out \in
                        { IF sub.err THEN [ st |-> sub.st, id |-> 0, err |-> TRUE ]
                          ELSE [ st |-> set_source(sub.st, source_id, sub.ids),
                                 id |-> source_id, err |-> FALSE ] :
                          sub \in { IF omit_deps
                                    THEN [ st |-> st1, ids |-> << >>, err |-> FALSE ]
                                    ELSE build_deps(omit_deps,
                                                    sort_reqs(package.dependencies),
                                                    level + 1, packages, st1) } } : TRUE

\* build_dep_tree, lines 78-82: the loop over the dependencies, left by `?`
\* at the first error
build_deps(omit_deps, deps, level, packages, st) ==
    IF deps = << >> THEN [ st |-> st, ids |-> << >>, err |-> FALSE ]
    ELSE CHOOSE out \in
           UNION { IF h.err THEN { [ st |-> h.st, ids |-> << >>, err |-> TRUE ] }
                   ELSE { [ st |-> r.st,
                            ids |-> (IF h.id = 0 THEN << >> ELSE <<h.id>>) \o r.ids,
                            err |-> r.err ] :
                          r \in { build_deps(omit_deps, Tail(deps), level, packages,
                                             h.st) } } :
                   h \in { build_dep_tree(omit_deps, Head(deps), level, packages, st) } } :
           TRUE

RECURSIVE build_members(_, _, _, _)
\* dependency_tree, lines 22-26: the loop over the workspace members; the
\* value is the state after it and whether it was left by an error
build_members(omit_deps, members, packages, st) ==
    IF members = << >> THEN [ st |-> st, err |-> FALSE ]
    ELSE CHOOSE out \in
           { IF h.err THEN [ st |-> h.st, err |-> TRUE ]
             ELSE build_members(omit_deps, Tail(members), packages,
                                IF h.id = 0 THEN h.st
                                ELSE [ h.st EXCEPT !.roots = Append(@, h.id) ]) :
             h \in { build_dep_tree(omit_deps, Head(members), 0, packages, st) } } :
           TRUE

\* what dependency_tree returns with an error: no DepTree
NoTree ==
    [ is |-> "Err", roots |-> << >>, sources |-> << >>, deps |-> << >>,
      parents |-> << >>, is_root |-> << >>, dir |-> << >> ]

\* a dependency_tree that resolves the dependencies whatever omit_deps is
dependency_tree_with_deps(omit_deps, metadata) ==
    IF "packages" \notin DOMAIN metadata \/ "workspace_members" \notin DOMAIN metadata
    THEN NoTree
    ELSE CHOOSE tree \in
           { IF out.err THEN NoTree
             ELSE [ is |-> "Ok", roots |-> out.st.roots, sources |-> out.st.sources,
                    deps |-> out.st.deps, parents |-> out.st.parents,
                    is_root |-> out.st.is_root, dir |-> out.st.dir ] :
             out \in { build_members(FALSE, metadata.workspace_members,
                                     metadata.packages, EmptyTree) } } : TRUE

\* dependency_tree
dependency_tree(omit_deps, metadata) ==
    IF "packages" \notin DOMAIN metadata \/ "workspace_members" \notin DOMAIN metadata
    THEN NoTree
    ELSE CHOOSE tree \in
           { IF out.err THEN NoTree
             ELSE [ is |-> "Ok", roots |-> out.st.roots, sources |-> out.st.sources,
                    deps |-> out.st.deps, parents |-> out.st.parents,
                    is_root |-> out.st.is_root, dir |-> out.st.dir ] :
             out \in { build_members(omit_deps, metadata.workspace_members,
                                     metadata.packages, EmptyTree) } } : TRUE

\* ------------------------------------------------------------ the DepTree
(* The projects of the model.  metadata is what `cargo metadata` prints;    *)
(* reexp[s] are the dependencies find_reexported_crates reports for the    *)
(* lib.rs of source s, tags[s] the tag lines the tag tool finds under s's  *)
(* directory, in the order it meets them, omit_deps the setting of       *)
(* Config the tree is built with.  In every project a package's name is    *)
(* the SourceId dependency_tree gives it.                                  *)
(*   1 chain 1 -> 2 -> 3, 1 re-exports 2                                   *)
(*   2 1 -> {2,3}, 2 -> 3                                                  *)
(*   3 the cycle 1 -> 2 -> 1 with 2 -> 3, 2 re-exports 1                   *)
(*   4 two workspace members 1, 3 sharing the dependency 2                 *)
(*   5 1 -> {2,3}: two dependencies of equal depth                         *)
(*   6 workspace members 1 and 2 where 1 -> 2 -> 3: member 2 is first      *)
(*     built as a dependency of member 1                                   *)
(*   7 1 -> 2, 1 re-exports 2                                              *)
(*   8 chain 1 -> 2 -> 3 -> 4                                              *)
(*   9 1 -> 2 where 1's dependency entries name 2 twice                    *)
(*  10 1 -> {1, 2}: 1 names itself (a dev-dependency) and re-exports it    *)
(*  11 workspace members 1 and 2 where 1 -> {2,3} and 2 -> 3, built with   *)
(*     omit_deps: package 3 is a dependency only                           *)
Projects ==
    << [ metadata |-> [ workspace_members |-> Members(<<1>>),
                        packages |-> << Pkg(1, <<2>>), Pkg(2, <<3>>), Pkg(3, << >>) >> ],
         omit_deps |-> FALSE,
         reexp |-> << {2}, {}, {} >>,
         tags |-> << <<4, 3>>, <<5, 4>>, <<6>> >> ],
       [ metadata |-> [ workspace_members |-> Members(<<1>>),
                        packages |-> << Pkg(1, <<3, 2>>), Pkg(2, <<3>>), Pkg(3, << >>) >> ],
         omit_deps |-> FALSE,
         reexp |-> << {}, {3}, {} >>,
         tags |-> << <<3>>, <<4>>, <<5, 4>> >> ],
       [ metadata |-> [ workspace_members |-> Members(<<1>>),
                        packages |-> << Pkg(1, <<2>>), Pkg(2, <<3, 1>>), Pkg(3, << >>) >> ],
         omit_deps |-> FALSE,
         reexp |-> << {}, {1}, {} >>,
         tags |-> << <<3>>, <<4>>, <<5>> >> ],
       [ metadata |-> [ workspace_members |-> Members(<<1, 3>>),
                        packages |-> << Pkg(1, <<2>>), Pkg(2, << >>), Pkg(3, <<2>>) >> ],
         omit_deps |-> FALSE,
         reexp |-> << {}, {}, {} >>,
         tags |-> << <<3>>, << >>, << >> >> ],
       [ metadata |-> [ workspace_members |-> Members(<<1>>),
                        packages |-> << Pkg(1, <<2, 3>>), Pkg(2, << >>), Pkg(3, << >>) >> ],
         omit_deps |-> FALSE,
         reexp |-> << {3}, {}, {} >>,
         tags |-> << <<3>>, <<4>>, <<3>> >> ],
       [ metadata |-> [ workspace_members |-> Members(<<1, 2>>),
                        packages |-> << Pkg(1, <<2>>), Pkg(2, <<3>>), Pkg(3, << >>) >> ],
         omit_deps |-> FALSE,
         reexp |-> << {}, {}, {} >>,
         tags |-> << <<3>>, <<4>>, <<5>> >> ],
       [ metadata |-> [ workspace_members |-> Members(<<1>>),
                        packages |-> << Pkg(1, <<2>>), Pkg(2, << >>) >> ],
         omit_deps |-> FALSE,
         reexp |-> << {2}, {} >>,
         tags |-> << <<4, 3>>, <<4>> >> ],
       [ metadata |-> [ workspace_members |-> Members(<<1>>),
                        packages |-> << Pkg(1, <<2>>), Pkg(2, <<3>>), Pkg(3, <<4>>),
                                        Pkg(4, << >>) >> ],
         omit_deps |-> FALSE,
         reexp |-> << {}, {}, {}, {} >>,
         tags |-> << <<3>>, <<4>>, <<5>>, <<6>> >> ],
       [ metadata |-> [ workspace_members |-> Members(<<1>>),
                        packages |-> << Pkg(1, <<2, 2>>), Pkg(2, << >>) >> ],
         omit_deps |-> FALSE,
         reexp |-> << {}, {} >>,
         tags |-> << <<3>>, <<4>> >> ],
       [ metadata |-> [ workspace_members |-> Members(<<1>>),
                        packages |-> << Pkg(1, <<2, 1>>), Pkg(2, << >>) >> ],
         omit_deps |-> FALSE,
         reexp |-> << {1}, {} >>,
         tags |-> << <<3>>, <<4>> >> ],
       [ metadata |-> [ workspace_members |-> Members(<<1, 2>>),
                        packages |-> << Pkg(1, <<2, 3>>), Pkg(2, <<3>>), Pkg(3, << >>) >> ],
         omit_deps |-> TRUE,
         reexp |-> << {2}, {}, {} >>,
         tags |-> << <<4, 3>>, <<5>>, <<6>> >> ] >>

\* The DepTree dependency_tree builds for each project, with what the tag
\* tool and find_reexported_crates find in its sources: deps[s] is
\* DepTree.dependencies[s] in its stored order, roots is DepTree.roots,
\* is_root the Source field.
\* the DepTree of project i, with what the tools find in its sources
Graph(i) ==
    CHOOSE g \in
      { [ roots |-> t.roots, sources |-> t.sources, deps |-> t.deps,
          parents |-> t.parents, is_root |-> t.is_root,
          reexp |-> Projects[i].reexp, tags |-> Projects[i].tags ] :
        t \in { dependency_tree(Projects[i].omit_deps, Projects[i].metadata) } } : TRUE

\* DepTree::all_sources
all_sources(g) == { s \in DOMAIN g.sources : g.sources[s] }

\* DepTree::dependencies(source)
dependencies(g, s) == g.deps[s]

\* DepTree.parents[d], as set_source filled it
parents(g, d) == g.parents[d]

\* a walk that stops at the direct parents of `source`
ancestors_direct(g, source, dep_graph) ==
    LET stack == Append(dep_graph, source)
    IN  SelectSeq(parents(g, source), LAMBDA a : a \notin Range(stack))

RECURSIVE ancestors_internal(_, _, _)
\* The sources ancestors_internal pushes onto ancestor_srcs for `source`, in
\* the order it pushes them; dep_graph is the stack of the current descent.
ancestors_internal(g, source, dep_graph) ==
    LET stack == Append(dep_graph, source)
        ps    == parents(g, source)
    IN  Concat([ i \in DOMAIN ps |->
                 IF ps[i] \in Range(stack) THEN << >>
                 ELSE <<ps[i]>> \o ancestors_internal(g, ps[i], stack) ])

\* unique_sources that sorts and keeps the repetitions
unique_sources_sorted_only(srcs) == sort_unstable(srcs)

\* unique_sources: sort by id, dedup
unique_sources(srcs) == Dedup(sort_unstable(srcs))

\* DepTree::ancestors
ancestors(g, sources) ==
    unique_sources(Concat([ i \in DOMAIN sources |->
                            ancestors_internal(g, sources[i], << >>) ]))

RECURSIVE LongestFrom(_, _, _, _)
\* the longest descent from `from` to `to` that repeats no source, or -1
LongestFrom(g, from, to, seen) ==
    IF from = to THEN 0
    ELSE LET nexts == { d \in Range(g.deps[from]) : d \notin seen \cup {from} }
             ls    == { LongestFrom(g, d, to, seen \cup {from}) : d \in nexts }
             ok    == { l \in ls : l >= 0 }
         IN  IF ok = {} THEN -1
             ELSE 1 + (CHOOSE l \in ok : \A k \in ok : k <= l)

\* Source.max_depth: the length of the longest path from any root
max_depth(g, s) ==
    LET ls == { LongestFrom(g, r, s, {}) : r \in Range(g.roots) }
    IN  CHOOSE l \in ls : \A k \in ls : k <= l

\* ------------------------------------------------------------- tag files
\* A file: whether it exists, its lines, whether its writer has finished
\* writing it, and the <<process, run>> that wrote it (<<0, 0>> for a file
\* that was on disk before the first run).
NoFile == [ exists |-> FALSE, lines |-> << >>, complete |-> FALSE, by |-> <<0, 0>> ]

File(ls, who) == [ exists |-> TRUE, lines |-> ls, complete |-> TRUE, by |-> who ]

\* a file whose writer has written only the first half of `ls` so far
Partial(ls, who) ==
    [ exists |-> TRUE, lines |-> SubSeq(ls, 1, Len(ls) \div 2),
      complete |-> FALSE, by |-> who ]

\* the two header lines merge_tags writes
Headers == <<1, 2>>

\* chars().nth(0) of the line is '!'
IsHeader(l) == l \in Range(Headers)

\* the line is empty: chars().nth(0) is None
IsEmptyLine(l) == l = 0

\* "<cached_tags_file of d>,include"
IncludeLine(d) == 100 + d

\* a tag file left by an earlier run of the same configuration
OldFile(kind) ==
    IF kind = "Vi" THEN File(Headers \o <<9>>, <<0, 0>>) ELSE File(<<9>>, <<0, 0>>)

\* What the tag tool writes for source s (create_tags, cmd.output()): in Vi
\* mode its pseudo-tag headers and the tags, sorted unless ctags_options
\* turns the tool's sorting off; in Emacs mode the tags as met.
ctags_output(g, cfg, s) ==
    IF cfg.kind = "Vi"
    THEN Headers \o (IF cfg.tool_sorts THEN sort_unstable(g.tags[s]) ELSE g.tags[s])
    ELSE g.tags[s]

\* a copy that creates to_tags and writes nothing into it
copy_tags_truncating(from_lines) == << >>

\* copy_tags: the bytes of from_tags
copy_tags(from_lines) == from_lines

\* a merge without the early return of lines 249-255: it sorts also when
\* there is no dependency tag file
merge_tags_always_sorting(kind, lib, lib_lines, dep_paths, dep_lines, into, into_lines) ==
    IF kind = "Vi"
    THEN LET file_contents == <<lib_lines>> \o dep_lines
             merged_lines  == SelectSeq(Concat(file_contents),
                                  LAMBDA l : ~IsEmptyLine(l) /\ ~IsHeader(l))
         IN  Headers \o Dedup(sort_unstable(merged_lines))
    ELSE LET copied == IF lib # into THEN copy_tags(lib_lines) ELSE into_lines
             incl   == SelectSeq(dep_paths, LAMBDA f : f # into)
         IN  copied \o [ i \in DOMAIN incl |-> IncludeLine(incl[i][2]) ]

\* a merge that reads lib_tag_file and leaves the dependency tag files out
merge_tags_lib_only(kind, lib, lib_lines, dep_paths, dep_lines, into, into_lines) ==
    IF kind = "Vi"
    THEN IF dep_paths = << >>
         THEN IF lib # into THEN copy_tags(lib_lines) ELSE into_lines
         ELSE LET merged_lines == SelectSeq(lib_lines,
                                      LAMBDA l : ~IsEmptyLine(l) /\ ~IsHeader(l))
              IN  Headers \o Dedup(sort_unstable(merged_lines))
    ELSE LET copied == IF lib # into THEN copy_tags(lib_lines) ELSE into_lines
             incl   == SelectSeq(dep_paths, LAMBDA f : f # into)
         IN  copied \o [ i \in DOMAIN incl |-> IncludeLine(incl[i][2]) ]

\* a merge that sorts the lines and leaves the duplicates in
merge_tags_no_dedup(kind, lib, lib_lines, dep_paths, dep_lines, into, into_lines) ==
    IF kind = "Vi"
    THEN IF dep_paths = << >>
         THEN IF lib # into THEN copy_tags(lib_lines) ELSE into_lines
         ELSE LET file_contents == <<lib_lines>> \o dep_lines
                  merged_lines  == SelectSeq(Concat(file_contents),
                                       LAMBDA l : ~IsEmptyLine(l) /\ ~IsHeader(l))
              IN  Headers \o sort_unstable(merged_lines)
    ELSE LET copied == IF lib # into THEN copy_tags(lib_lines) ELSE into_lines
             incl   == SelectSeq(dep_paths, LAMBDA f : f # into)
         IN  copied \o [ i \in DOMAIN incl |-> IncludeLine(incl[i][2]) ]

\* merge_tags.  lib and into are paths, lib_lines the lines of lib,
\* dep_paths and dep_lines the dependency tag files and what each holds,
\* into_lines what into holds before the call.  The value is what into
\* holds after it.
merge_tags(kind, lib, lib_lines, dep_paths, dep_lines, into, into_lines) ==
    IF kind = "Vi"
    THEN IF dep_paths = << >>
         THEN IF lib # into THEN copy_tags(lib_lines) ELSE into_lines
         ELSE LET file_contents == <<lib_lines>> \o dep_lines
                  merged_lines  == SelectSeq(Concat(file_contents),
                                       LAMBDA l : ~IsEmptyLine(l) /\ ~IsHeader(l))
              IN  Headers \o Dedup(sort_unstable(merged_lines))
    ELSE LET copied == IF lib # into THEN copy_tags(lib_lines) ELSE into_lines
             incl   == SelectSeq(dep_paths, LAMBDA f : f # into)
         IN  copied \o [ i \in DOMAIN incl |-> IncludeLine(incl[i][2]) ]

\* paths
CachedPath(s) == <<"cache", s>>
TagsPath(s) == <<"project", s>>
TmpSrcPath(p, s) == <<"tmp_src", s, p>>
TmpOutPath(p, w) == <<"tmp_out", w, p>>


\* ------------------------------------------------------------------ state
VARIABLES
    graph,       \* index into Projects: the project of the run
    config,      \* Config: kind, num_threads, force_recreate, tool_sorts
    cached,      \* cached[s]: the file at s.cached_tags_file
    tags,        \* tags[s]: the file at s.tags_file
    lock_files,  \* the sources whose lock file exists in the locks directory
    handle,      \* handle[p]: the SourceLock process p is creating or holds
    pc,          \* pc[p]: where process p's update_tags stands
    run,         \* run[p]: the number of the run process p is in
    result,      \* result[p]: what update_tags returned to its caller
    plan,        \* plan[p]: sources_to_update, in scheduling order
    next_job,    \* next_job[p]: index into plan[p] of the next source to hand out
    workers,     \* workers[p][w]: what thread w of process p is doing
    tmp_src,     \* tmp_src[p][s]: SourceWithTmpTags.tags_file of s
    published,   \* published[p][s]: renames onto s's final files in this run
    begun,       \* begun[p]: sources whose update_tags_internal has started
    overwrote,   \* overwrote[p]: final files that existed when a rename replaced them
    first_err,   \* first_err[p]: the source whose work failed first, or 0
    late,        \* late[p]: sources handed out after a failure
    call,        \* the function applied on its own, with its arguments
    ret          \* what that function returned or left behind

vars == << graph, config, cached, tags, lock_files, handle, pc, run, result, plan,
           next_job, workers, tmp_src, published, begun, overwrote, first_err, late,
           call, ret >>

env_vars == << graph, config, lock_files, handle, call, ret >>

G == Graph(graph)

Sources == all_sources(G)

Me(p) == <<p, run[p]>>

Configs ==
    { c \in [ kind : {"Vi", "Emacs"}, num_threads : 1..MaxThreads,
              force_recreate : BOOLEAN, tool_sorts : BOOLEAN ] :
        c.kind = "Emacs" => c.tool_sorts }

\* Which final files are missing before the first run of a project of n
\* sources: c holds the sources without a cached file, t those without a
\* project file.
Presence(n) ==
    << [ c |-> {},     t |-> {} ],
       [ c |-> 1..n,   t |-> 1..n ],
       [ c |-> {n},    t |-> {n} ],
       [ c |-> {2},    t |-> {} ],
       [ c |-> {},     t |-> {n} ] >>

\* no function was applied on its own
NoCall == [ fn |-> "none" ]

Idle == [ st |-> "idle", src |-> 0, tmp |-> NoFile, full |-> << >> ]

Dead == [ st |-> "dead", src |-> 0, tmp |-> NoFile, full |-> << >> ]

Threads == 1..MaxThreads

\* update_tags, lines 55-59: the pool's threads; without a pool the calling
\* thread does the work
Pool(cfg) == IF cfg.num_threads > 1 THEN 1..cfg.num_threads ELSE {1}

UsesPool(cfg) == cfg.num_threads > 1

NoResult == [ tag |-> "none", src |-> 0 ]

\* a check that reports every source as in need of an update
needs_tags_update_always(g, cfg, s, c, t) == TRUE

\* Source::needs_tags_update
needs_tags_update(g, cfg, s, c, t) ==
    \/ cfg.force_recreate
    \/ g.is_root[s]
    \/ ~c[s].exists \/ ~t[s].exists

\* update_tags, lines 21-24: the sources for which needs_tags_update holds
dirty_sources(g, cfg, c, t) ==
    SelectSeq(SeqOfSet(all_sources(g)),
              LAMBDA s : needs_tags_update(g, cfg, s, c, t))

\* a planner that takes the sources in need of an update and none of their
\* ancestors
selected_sources_dirty_only(g, cfg, c, t) == dirty_sources(g, cfg, c, t)

\* update_tags, lines 30-33: the dirty sources and their ancestors, unique
selected_sources(g, cfg, c, t) ==
    LET to_update == dirty_sources(g, cfg, c, t)
    IN  unique_sources(ancestors(g, to_update) \o to_update)

\* update_tags, line 38: sort_unstable_by max_depth, deepest first; the order
\* of sources of equal depth is whatever the sort leaves
sorted_by_depth(g, srcs) ==
    { pl \in [ DOMAIN srcs -> Range(srcs) ] :
        /\ Range(pl) = Range(srcs)
        /\ \A i, j \in DOMAIN pl :
             i < j => max_depth(g, pl[i]) >= max_depth(g, pl[j]) }

InitEnvWith(configs) ==
    /\ graph \in DOMAIN Projects
    /\ config \in configs
    /\ \E missing \in Range(Presence(Len(G.deps))) :
         /\ cached = [ s \in Sources |->
                       IF s \in missing.c THEN NoFile ELSE OldFile(config.kind) ]
         /\ tags = [ s \in Sources |->
                     IF s \in missing.t THEN NoFile ELSE OldFile(config.kind) ]
    /\ handle = [ p \in Procs |-> [ st |-> "none", src |-> 0 ] ]
    /\ call = NoCall /\ ret = NoCall

InitEnv == InitEnvWith(Configs)

InitProc(active) ==
    /\ pc = [ p \in Procs |-> IF p \in active THEN "start" ELSE "off" ]
    /\ run = [ p \in Procs |-> 1 ]
    /\ result = [ p \in Procs |-> NoResult ]
    /\ plan = [ p \in Procs |-> << >> ]
    /\ next_job = [ p \in Procs |-> 1 ]
    /\ workers = [ p \in Procs |-> [ w \in Threads |-> Idle ] ]
    /\ tmp_src = [ p \in Procs |-> [ s \in Sources |-> NoFile ] ]
    /\ published = [ p \in Procs |-> [ s \in Sources |-> [ cached |-> 0, tags |-> 0 ] ] ]
    /\ begun = [ p \in Procs |-> {} ]
    /\ overwrote = [ p \in Procs |-> {} ]
    /\ first_err = [ p \in Procs |-> 0 ]
    /\ late = [ p \in Procs |-> {} ]

\* One process, no lock file.
Init ==
    /\ InitEnv
    /\ lock_files = {}
    /\ InitProc({1})


\* ---------------------------------------------------------------- actions
Busy(p) == { w \in Threads : workers[p][w].st \notin {"idle", "dead"} }

IdleThreads(p) == { w \in Pool(config) : workers[p][w].st = "idle" }

DeadThreads(p) == { w \in Threads : workers[p][w].st = "dead" }

\* update_tags, lines 21-59: plan the run and create one temporary file per
\* selected source (SourceWithTmpTags::new)
StartRun(p) ==
    /\ pc[p] = "start"
    /\ \E pl \in sorted_by_depth(G, selected_sources(G, config, cached, tags)) :
         plan' = [plan EXCEPT ![p] = pl]
    /\ tmp_src' = [tmp_src EXCEPT ![p] =
                     [ s \in Sources |->
                       IF s \in Range(plan'[p]) THEN Partial(<< >>, Me(p)) ELSE NoFile ]]
    /\ pc' = [pc EXCEPT ![p] = "phase1"]
    /\ next_job' = [next_job EXCEPT ![p] = 1]
    /\ UNCHANGED << env_vars, cached, tags, run, result, workers, published, begun,
                    overwrote, first_err, late >>

\* A thread takes the next source of the list in the current phase.  Idle
\* threads are interchangeable, so the one of least index takes it.
Take(p, w, phase) ==
    /\ pc[p] = phase
    /\ next_job[p] <= Len(plan[p])
    /\ w \in IdleThreads(p)
    /\ \A v \in IdleThreads(p) : w <= v
    /\ next_job' = [next_job EXCEPT ![p] = @ + 1]
    /\ late' = [late EXCEPT ![p] =
                  IF first_err[p] # 0 THEN @ \cup {plan[p][next_job[p]]} ELSE @]

\* update_tags, lines 63-75, and create_tags: the tag tool is started on the
\* source's temporary file
create_tags(p, w) ==
    /\ Take(p, w, "phase1")
    /\ LET s == plan[p][next_job[p]]
       IN  /\ workers' = [workers EXCEPT ![p][w] =
                            [ st |-> "ctags", src |-> s, tmp |-> NoFile,
                              full |-> ctags_output(G, config, s) ]]
           /\ tmp_src' = [tmp_src EXCEPT ![p][s] =
                            Partial(ctags_output(G, config, s), Me(p))]
    /\ UNCHANGED << env_vars, cached, tags, pc, run, result, plan, published, begun,
                    overwrote, first_err >>

\* create_tags, lines 196-212: the tool exits successfully
ctags_exits(p, w) ==
    /\ workers[p][w].st = "ctags"
    /\ tmp_src' = [tmp_src EXCEPT ![p][workers[p][w].src] =
                     File(workers[p][w].full, Me(p))]
    /\ workers' = [workers EXCEPT ![p][w] = Idle]
    /\ UNCHANGED << env_vars, cached, tags, pc, run, result, plan, next_job, published,
                    begun, overwrote, first_err, late >>

\* What a failed step of a source's work does to the run: without a pool the
\* `?` of lines 73 and 93 returns the error at once; in a pool thread the
\* unwrap() of lines 67 and 86 panics, which ends that thread only.
job_fails(p, w) ==
    /\ workers[p][w].st \notin {"idle", "dead"}
    /\ first_err' = [first_err EXCEPT ![p] = IF @ = 0 THEN workers[p][w].src ELSE @]
    /\ IF UsesPool(config)
       THEN /\ workers' = [workers EXCEPT ![p][w] = Dead]
            /\ UNCHANGED << pc, result >>
       ELSE /\ workers' = [workers EXCEPT ![p][w] = Idle]
            /\ pc' = [pc EXCEPT ![p] = "done"]
            /\ result' = [result EXCEPT ![p] =
                            [ tag |-> "Err", src |-> workers[p][w].src ]]
    /\ UNCHANGED << env_vars, cached, tags, run, plan, next_job, tmp_src, published,
                    begun, overwrote, late >>

\* a scope that is left as soon as every source was handed out, without
\* waiting for the threads
ScopeOver_without_join(p) == next_job[p] > Len(plan[p])

\* the scope of a phase is left: every source was handed out, or no thread
\* is left to take one, and no thread is working
ScopeOver(p) ==
    /\ Busy(p) = {}
    /\ \/ next_job[p] > Len(plan[p])
       \/ IdleThreads(p) = {}

\* a first scope whose end lets the run go on after a pool thread panicked
end_phase1_ignoring_panics(p) ==
    /\ pc[p] = "phase1"
    /\ ScopeOver(p)
    /\ pc' = [pc EXCEPT ![p] = "phase2"]
    /\ next_job' = [next_job EXCEPT ![p] = 1]
    /\ UNCHANGED << env_vars, cached, tags, run, plan, workers, tmp_src, published,
                    begun, overwrote, first_err, late, result >>

\* update_tags, lines 63-70: the first scope ends; scoped() panics in the
\* calling thread when a pool thread has panicked
end_phase1(p) ==
    /\ pc[p] = "phase1"
    /\ ScopeOver(p)
    /\ IF DeadThreads(p) # {}
       THEN /\ pc' = [pc EXCEPT ![p] = "done"]
            /\ result' = [result EXCEPT ![p] = [ tag |-> "panic", src |-> first_err[p] ]]
            /\ UNCHANGED next_job
       ELSE /\ pc' = [pc EXCEPT ![p] = "phase2"]
            /\ next_job' = [next_job EXCEPT ![p] = 1]
            /\ UNCHANGED result
    /\ UNCHANGED << env_vars, cached, tags, run, plan, workers, tmp_src, published,
                    begun, overwrote, first_err, late >>

\* a filter that keeps the dependencies whose cached tag file is missing
existing_cached_unfiltered(ds) == ds

\* the cached tag files of the dependencies in `ds` that are files
existing_cached(ds) == SelectSeq(ds, LAMBDA d : cached[d].exists)

paths_of(ds) == [ i \in DOMAIN ds |-> CachedPath(ds[i]) ]

lines_of(ds) == [ i \in DOMAIN ds |-> cached[ds[i]].lines ]

\* update_tags_internal, lines 106-137: what is written to tmp_cached_tags
cached_content(p, w, s) ==
    LET reexported == SelectSeq(dependencies(G, s), LAMBDA d : d \in G.reexp[s])
        files      == existing_cached(reexported)
    IN  IF files # << >>
        THEN merge_tags(config.kind, TmpSrcPath(p, s), tmp_src[p][s].lines,
                        paths_of(files), lines_of(files), TmpOutPath(p, w), << >>)
        ELSE copy_tags(tmp_src[p][s].lines)

\* update_tags_internal, lines 144-162: what is written to tmp_src_and_dep_tags
project_content(p, w, s) ==
    LET files == existing_cached(dependencies(G, s))
    IN  IF files # << >>
        THEN merge_tags(config.kind, TmpSrcPath(p, s), tmp_src[p][s].lines,
                        paths_of(files), lines_of(files), TmpOutPath(p, w), << >>)
        ELSE copy_tags(tmp_src[p][s].lines)

\* update_tags, lines 81-95, update_tags_internal, lines 106-137: a thread
\* takes a source and starts writing its temporary cached tag file
begin_cached(p, w) ==
    /\ Take(p, w, "phase2")
    /\ LET s == plan[p][next_job[p]]
           c == cached_content(p, w, s)
       IN  /\ workers' = [workers EXCEPT ![p][w] =
                            [ st |-> "cached_merge", src |-> s,
                              tmp |-> Partial(c, Me(p)), full |-> c ]]
           /\ begun' = [begun EXCEPT ![p] = @ \cup {s}]
    /\ UNCHANGED << env_vars, cached, tags, pc, run, result, plan, tmp_src, published,
                    overwrote, first_err >>

\* merge_tags / copy_tags return: the temporary file holds all its lines
finish_write(p, w) ==
    /\ workers[p][w].st \in {"cached_merge", "project_merge"}
    /\ workers' = [workers EXCEPT ![p][w] =
                     [ @ EXCEPT !.st = IF @ = "cached_merge" THEN "cached_written"
                                       ELSE "project_written",
                                !.tmp = File(workers[p][w].full, Me(p)) ]]
    /\ UNCHANGED << env_vars, cached, tags, pc, run, result, plan, next_job, tmp_src,
                    published, begun, overwrote, first_err, late >>

\* a thread that renames its temporary file while it is still writing it
at_move_while_writing(job, which) ==
    job.st \in (IF which = "cached" THEN {"cached_merge", "cached_written"}
               ELSE {"project_merge", "project_written"})

\* whether the thread has reached the move_tags call for `which`
at_move(job, which) ==
    job.st = (IF which = "cached" THEN "cached_written" ELSE "project_written")

\* move_tags: rename(from_tags, to_tags); the value is the file at to_tags
move_tags(from_file) == from_file

\* update_tags_internal, line 139: the temporary file is renamed onto
\* source.cached_tags_file
move_cached(p, w) ==
    /\ workers[p][w].st \notin {"idle", "dead"}
    /\ at_move(workers[p][w], "cached")
    /\ LET s == workers[p][w].src
       IN  /\ cached' = [cached EXCEPT ![s] = move_tags(workers[p][w].tmp)]
           /\ published' = [published EXCEPT ![p][s].cached = @ + 1]
           /\ overwrote' = [overwrote EXCEPT ![p] =
                              IF cached[s].exists THEN @ \cup {CachedPath(s)} ELSE @]
    /\ workers' = [workers EXCEPT ![p][w] =
                     [ @ EXCEPT !.st = "cached_moved", !.tmp = NoFile, !.full = << >> ]]
    /\ UNCHANGED << env_vars, tags, pc, run, result, plan, next_job, tmp_src, begun,
                    first_err, late >>

\* a thread that goes on to the project tag file without having renamed the
\* cached one
begin_project_unmoved(p, w) ==
    /\ workers[p][w].st = "cached_written"
    /\ LET s == workers[p][w].src
           c == project_content(p, w, s)
       IN  workers' = [workers EXCEPT ![p][w] =
                         [ st |-> "project_merge", src |-> s,
                           tmp |-> Partial(c, Me(p)), full |-> c ]]
    /\ UNCHANGED << env_vars, cached, tags, pc, run, result, plan, next_job, tmp_src,
                    published, begun, overwrote, first_err, late >>

\* update_tags_internal, lines 144-162: the thread starts writing the
\* temporary project tag file
begin_project(p, w) ==
    /\ workers[p][w].st = "cached_moved"
    /\ LET s == workers[p][w].src
           c == project_content(p, w, s)
       IN  workers' = [workers EXCEPT ![p][w] =
                         [ st |-> "project_merge", src |-> s,
                           tmp |-> Partial(c, Me(p)), full |-> c ]]
    /\ UNCHANGED << env_vars, cached, tags, pc, run, result, plan, next_job, tmp_src,
                    published, begun, overwrote, first_err, late >>

\* update_tags_internal, line 164: the temporary file is renamed onto
\* source.tags_file, which ends the source's work
move_project(p, w) ==
    /\ workers[p][w].st \notin {"idle", "dead"}
    /\ at_move(workers[p][w], "project")
    /\ LET s == workers[p][w].src
       IN  /\ tags' = [tags EXCEPT ![s] = move_tags(workers[p][w].tmp)]
           /\ published' = [published EXCEPT ![p][s].tags = @ + 1]
           /\ overwrote' = [overwrote EXCEPT ![p] =
                              IF tags[s].exists THEN @ \cup {TagsPath(s)} ELSE @]
    /\ workers' = [workers EXCEPT ![p][w] = Idle]
    /\ UNCHANGED << env_vars, cached, pc, run, result, plan, next_job, tmp_src, begun,
                    first_err, late >>

\* update_tags, lines 81-97: the second scope ends and update_tags returns
end_phase2(p) ==
    /\ pc[p] = "phase2"
    /\ ScopeOver(p)
    /\ pc' = [pc EXCEPT ![p] = "done"]
    /\ result' = [result EXCEPT ![p] =
                    IF DeadThreads(p) # {} THEN [ tag |-> "panic", src |-> first_err[p] ]
                    ELSE [ tag |-> "Ok", src |-> 0 ]]
    /\ UNCHANGED << env_vars, cached, tags, run, plan, next_job, workers, tmp_src,
                    published, begun, overwrote, first_err, late >>

\* the user runs rusty-tags again after a run that succeeded, with no source
\* edited in between
next_run(p) ==
    /\ pc[p] = "done"
    /\ result[p].tag = "Ok"
    /\ run[p] < MaxRuns
    /\ run' = [run EXCEPT ![p] = @ + 1]
    /\ pc' = [pc EXCEPT ![p] = "start"]
    /\ result' = [result EXCEPT ![p] = NoResult]
    /\ plan' = [plan EXCEPT ![p] = << >>]
    /\ next_job' = [next_job EXCEPT ![p] = 1]
    /\ workers' = [workers EXCEPT ![p] = [ w \in Threads |-> Idle ]]
    /\ tmp_src' = [tmp_src EXCEPT ![p] = [ s \in Sources |-> NoFile ]]
    /\ published' = [published EXCEPT ![p] =
                       [ s \in Sources |-> [ cached |-> 0, tags |-> 0 ] ]]
    /\ begun' = [begun EXCEPT ![p] = {}]
    /\ overwrote' = [overwrote EXCEPT ![p] = {}]
    /\ first_err' = [first_err EXCEPT ![p] = 0]
    /\ late' = [late EXCEPT ![p] = {}]
    /\ UNCHANGED << env_vars, cached, tags >>

Next ==
    \E p \in Procs :
        \/ StartRun(p)
        \/ end_phase1(p)
        \/ end_phase2(p)
        \/ next_run(p)
        \/ \E w \in Threads :
            \/ create_tags(p, w)
            \/ ctags_exits(p, w)
            \/ job_fails(p, w)
            \/ begin_cached(p, w)
            \/ finish_write(p, w)
            \/ move_cached(p, w)
            \/ begin_project(p, w)
            \/ move_project(p, w)

Spec == Init /\ [][Next]_vars

\* --------------------------------------------- runs from the command line
\* what --num-threads holds: nothing, something that is no u32, or a number
NumThreadsArgs ==
    [ is : {"None", "NoNumber"}, n : {0} ] \cup [ is : {"Some"}, n : 0..MaxThreads ]

\* Config::from_command_args, line 107
verbose_setting(quiet, verbose_flag) == IF quiet THEN FALSE ELSE verbose_flag

\* a num_threads that follows --num-threads also when verbose is set
num_threads_setting_despite_verbose(verbose, arg, physical) ==
    IF arg.is # "Some" THEN physical
    ELSE IF arg.n >= 1 THEN arg.n ELSE 1

\* Config::from_command_args, lines 109-116; physical is what
\* num_cpus::get_physical() returns
num_threads_setting(verbose, arg, physical) ==
    IF verbose THEN 1
    ELSE IF arg.is # "Some" THEN physical
         ELSE IF arg.n >= 1 THEN arg.n ELSE 1

\* the Configs from_command_args builds for every command line, on a machine
\* of 1..MaxThreads physical cores
CliConfigs ==
    { [ kind |-> c.kind, force_recreate |-> c.force_recreate, tool_sorts |-> c.tool_sorts,
        quiet |-> quiet, verbose |-> verbose_setting(quiet, verbose_flag),
        num_threads |-> num_threads_setting(verbose_setting(quiet, verbose_flag),
                                            arg, physical) ] :
      c \in Configs, quiet \in BOOLEAN, verbose_flag \in BOOLEAN,
      arg \in NumThreadsArgs, physical \in 1..MaxThreads }

CliInit ==
    /\ InitEnvWith(CliConfigs)
    /\ lock_files = {}
    /\ InitProc({1})

CliSpec == CliInit /\ [][Next]_vars

\* ------------------------------------------------- concurrent processes
\* Every process of Procs runs rusty-tags once on the project 1 -> 2, all
\* sharing the cache and the project tree; a lock file of source 2, held by
\* some other program run or left by a dead one, may be present.
InitConc ==
    /\ InitEnv
    /\ graph = 7
    /\ config.num_threads = 1
    /\ lock_files \in { {}, {2} }
    /\ InitProc(Procs)

NextConc ==
    \E p \in Procs :
        \/ StartRun(p)
        \/ end_phase1(p)
        \/ end_phase2(p)
        \/ \E w \in Threads :
            \/ create_tags(p, w)
            \/ ctags_exits(p, w)
            \/ job_fails(p, w)
            \/ begin_cached(p, w)
            \/ finish_write(p, w)
            \/ move_cached(p, w)
            \/ begin_project(p, w)
            \/ move_project(p, w)

ConcSpec == InitConc /\ [][NextConc]_vars

\* ------------------------------------------------------------ SourceLock
run_vars == << cached, tags, pc, run, result, plan, next_job, workers, tmp_src,
               published, begun, overwrote, first_err, late >>

NoHandle == [ st |-> "none", src |-> 0 ]

\* SourceLock::new, line 205: lock_file.is_file()
lock_is_file(p, s) ==
    /\ handle[p].st = "none"
    /\ handle' = [handle EXCEPT ![p] =
                    IF s \in lock_files THEN [ st |-> "AlreadyLocked", src |-> s ]
                    ELSE [ st |-> "creating", src |-> s ]]
    /\ UNCHANGED << graph, config, lock_files, call, ret, run_vars >>

\* SourceLock::new, lines 208-211: File::create(&lock_file), which creates
\* the file or truncates the one that is there
lock_create(p) ==
    /\ handle[p].st = "creating"
    /\ lock_files' = lock_files \cup {handle[p].src}
    /\ handle' = [handle EXCEPT ![p].st = "Locked"]
    /\ UNCHANGED << graph, config, call, ret, run_vars >>

\* Drop for SourceLock, lines 216-228
lock_drop(p) ==
    /\ handle[p].st \in {"Locked", "AlreadyLocked"}
    /\ lock_files' = IF handle[p].st = "Locked" THEN lock_files \ {handle[p].src}
                     ELSE lock_files
    /\ handle' = [handle EXCEPT ![p] = NoHandle]
    /\ UNCHANGED << graph, config, call, ret, run_vars >>

\* the process is killed while it holds the lock: nothing is dropped
lock_killed(p) ==
    /\ handle[p].st = "Locked"
    /\ handle' = [handle EXCEPT ![p] = NoHandle]
    /\ UNCHANGED << graph, config, lock_files, call, ret, run_vars >>

InitLock ==
    /\ InitEnv
    /\ graph = 1
    /\ config.num_threads = 1 /\ ~config.force_recreate /\ config.tool_sorts
    /\ \A s \in Sources : cached[s].exists /\ tags[s].exists
    /\ lock_files = {}
    /\ InitProc({})

NextLock ==
    \E p \in Procs :
        \/ \E s \in Sources : lock_is_file(p, s)
        \/ lock_create(p)
        \/ lock_drop(p)
        \/ lock_killed(p)

LockSpec == InitLock /\ [][NextLock]_vars

\* main, lines 41-46: the exit status of the process.  An Err is printed and
\* exits with 1; a panic of the main thread exits with Rust's status 101.
exit_code(res) ==
    IF res.tag = "Ok" THEN 0 ELSE IF res.tag = "Err" THEN 1 ELSE 101

\* ------------------------------------------------ find_reexported_crates
(* A line of lib.rs is a sequence of pieces of text: " " is one space,     *)
(* "TAB" one tab, ";" a semicolon, "::" a path separator, and every other  *)
(* piece a word without any of these in it.                                *)
RECURSIVE trim_matches(_, _)
\* str::trim_matches(c): c stripped from both ends, as often as it stands there
trim_matches(s, c) ==
    IF s # << >> /\ Head(s) = c THEN trim_matches(Tail(s), c)
    ELSE IF s # << >> /\ s[Len(s)] = c THEN trim_matches(SubSeq(s, 1, Len(s) - 1), c)
    ELSE s

RECURSIVE split(_, _)
\* str::split(sep): the pieces between the occurrences of sep, empty ones kept
split(s, sep) ==
    IF sep \notin Range(s) THEN <<s>>
    ELSE LET i == CHOOSE k \in DOMAIN s : s[k] = sep /\ \A j \in 1..(k - 1) : s[j] # sep
         IN  <<SubSeq(s, 1, i - 1)>> \o split(SubSeq(s, i + 1, Len(s)), sep)

\* find_reexported_crates, line 363: the items of a line
items_of(line) == split(trim_matches(line, ";"), " ")

\* find_reexported_crates, lines 368-373: what the lines add to pub_uses
pub_uses(lines) ==
    { split(items_of(lines[i])[3], "::")[1] :
        i \in { k \in DOMAIN lines :
                  LET items == items_of(lines[k])
                  IN  Len(items) >= 3 /\ items[1] = <<"pub">> /\ items[2] = <<"use">> } }

\* find_reexported_crates, lines 375-381: what the lines add to extern_crates
extern_crates(lines) ==
    { [ name    |-> trim_matches(items_of(lines[i])[3], "\""),
        as_name |-> IF Len(items_of(lines[i])) = 3 THEN items_of(lines[i])[3]
                    ELSE items_of(lines[i])[5] ] :
        i \in { k \in DOMAIN lines :
                  LET items == items_of(lines[k])
                  IN  /\ Len(items) >= 3
                      /\ items[1] = <<"extern">> /\ items[2] = <<"crate">>
                      /\ \/ Len(items) = 3
                         \/ Len(items) = 5 /\ items[4] = <<"as">> } }

\* find_reexported_crates: lib_rs.is_file says whether <src_dir>/lib.rs is
\* there, lib_rs.lines are its lines.  The value is the set of the names
\* pushed onto reexp_crates (their order is the hash set's).
find_reexported_crates(lib_rs) ==
    IF ~lib_rs.is_file THEN {}
    ELSE { e.name : e \in { x \in extern_crates(lib_rs.lines) :
                              x.as_name \in pub_uses(lib_rs.lines) } }

\* ----------------------------------------------------------------- vi_tag
(* A vi tag line is a sequence of pieces, each standing for the characters *)
(* it is written with; no two pieces begin with the same byte, so the      *)
(* byte-wise order of two lines is the order of their first differing      *)
(* pieces.                                                                 *)
\* the first byte of a piece
ByteOf(piece) ==
    CASE piece = "TAB"    -> 9
      [] piece = " "      -> 32
      [] piece = "!"      -> 33
      [] piece = "/^"     -> 47
      [] piece = "A"      -> 65
      [] piece = "B"      -> 66
      [] piece = "LF"     -> 10
      [] piece = "CR"     -> 13
      [] piece = "FORMAT" -> 70
      [] piece = "SORTED" -> 83
      [] piece = "_TAG_FILE_" -> 95
      [] piece = "a"      -> 97
      [] piece = "b"      -> 98
      [] piece = "enum"   -> 101
      [] piece = "f"      -> 102
      [] piece = "pub "   -> 112
      [] piece = "struct" -> 115

RECURSIVE StrLess(_, _)
\* Ord for str: a < b byte by byte
StrLess(a, b) ==
    IF b = << >> THEN FALSE
    ELSE IF a = << >> THEN TRUE
    ELSE IF Head(a) # Head(b) THEN ByteOf(Head(a)) < ByteOf(Head(b))
    ELSE StrLess(Tail(a), Tail(b))

RECURSIVE skip_whitespace(_)
\* the \s* of the patterns of AddressType::parse
skip_whitespace(s) ==
    IF s # << >> /\ Head(s) \in {" ", "TAB"} THEN skip_whitespace(Tail(s)) ELSE s

\* AddressType::parse, lines 93-106: ^/\^\s*(pub )?struct.*$ and the same
\* with enum; the discriminants are those of the enum AddressType
AddressType_parse(tag_address) ==
    LET after == IF tag_address # << >> /\ Head(tag_address) = "/^"
                 THEN skip_whitespace(Tail(tag_address)) ELSE << >>
        word  == IF after # << >> /\ Head(after) = "pub " THEN Tail(after) ELSE after
    IN  IF word # << >> /\ Head(word) = "struct" THEN 0
        ELSE IF word # << >> /\ Head(word) = "enum" THEN 1
        ELSE 5

\* Line::parse, lines 65-81
Line_parse(line) ==
    IF line = << >> THEN [ kind |-> "Other", line |-> line ]
    ELSE IF Head(line) = "!" THEN [ kind |-> "Header", line |-> line ]
    ELSE LET fields == split(line, "TAB")
         IN  IF Len(fields) < 3 THEN [ kind |-> "Other", line |-> line ]
             ELSE [ kind |-> "Tag", name |-> fields[1],
                    address_type |-> AddressType_parse(fields[3]), line |-> line ]

\* the order of the variants of Kind, lines 44-62
KindOrd(kind) == CASE kind = "Header" -> 0 [] kind = "Tag" -> 1 [] kind = "Other" -> 2

\* the derived Ord of Line, lines 33-40: by kind (variant, then name, then
\* address_type), then by line
LineLess(a, b) ==
    IF a.kind # b.kind THEN KindOrd(a.kind) < KindOrd(b.kind)
    ELSE IF a.kind = "Tag" /\ a.name # b.name THEN StrLess(a.name, b.name)
    ELSE IF a.kind = "Tag" /\ a.address_type # b.address_type
         THEN a.address_type < b.address_type
    ELSE StrLess(a.line, b.line)

RECURSIVE InsertStr(_, _)
InsertStr(x, s) ==
    IF s = << >> THEN <<x>>
    ELSE IF StrLess(Head(s), x) THEN <<Head(s)>> \o InsertStr(x, Tail(s))
    ELSE <<x>> \o s

RECURSIVE SortStr(_)
\* Vec::sort of strings
SortStr(s) == IF s = << >> THEN << >> ELSE InsertStr(Head(s), SortStr(Tail(s)))

\* sort_lines with the lines compared as strings, their kinds ignored
sort_lines_as_strings(str_lines) == SortStr(str_lines)

RECURSIVE InsertLine(_, _)
\* x put into the sorted sequence s of Lines
InsertLine(x, s) ==
    IF s = << >> THEN <<x>>
    ELSE IF LineLess(Head(s), x) THEN <<Head(s)>> \o InsertLine(x, Tail(s))
    ELSE <<x>> \o s

RECURSIVE SortLines(_)
\* sort_lines, line 12: lines.sort()
SortLines(s) == IF s = << >> THEN << >> ELSE InsertLine(Head(s), SortLines(Tail(s)))

\* sort_lines, lines 10-14
sort_lines(str_lines) ==
    LET lines == [ i \in DOMAIN str_lines |-> Line_parse(str_lines[i]) ]
        sorted == SortLines(lines)
    IN  [ i \in DOMAIN sorted |-> sorted[i].line ]

\* ----------------------------------------------------------------- config
\* an Option that is None
None == "None"

\* TagsSpec::new without the comparison of the two names
TagsSpec_new_unchecked(kind, vi_tags, emacs_tags) ==
    [ ok |-> TRUE, kind |-> kind, vi_tags |-> vi_tags, emacs_tags |-> emacs_tags ]

\* TagsSpec::new, types.rs:453-465
TagsSpec_new(kind, vi_tags, emacs_tags) ==
    IF vi_tags = emacs_tags THEN [ ok |-> FALSE ]
    ELSE [ ok |-> TRUE, kind |-> kind, vi_tags |-> vi_tags, emacs_tags |-> emacs_tags ]

\* Config::from_command_args, config.rs:79-102: the two tag file names
tags_names(kind, file_config, output) ==
    LET vt0 == "rusty-tags.vi"
        et0 == "rusty-tags.emacs"
        vt1 == IF file_config.is = "Some" /\ file_config.vi_tags # None
               THEN file_config.vi_tags ELSE vt0
        et1 == IF file_config.is = "Some" /\ file_config.emacs_tags # None
               THEN file_config.emacs_tags ELSE et0
        vt2 == IF output # None /\ kind = "Vi" THEN output ELSE vt1
        et2 == IF output # None /\ kind = "Emacs" THEN output ELSE et1
    IN  [ vi_tags |-> vt2, emacs_tags |-> et2 ]

\* Config::from_command_args, config.rs:43-139; load is what
\* ConfigFromFile::load returns, exe_found whether detect_tags_exe succeeds
from_command_args(kind, load, output, exe_found) ==
    IF load.is = "Err" \/ ~exe_found
    THEN [ ok |-> FALSE, reached_new |-> FALSE, tags_spec |-> [ ok |-> FALSE ] ]
    ELSE LET names == tags_names(kind, load, output)
             spec  == TagsSpec_new(kind, names.vi_tags, names.emacs_tags)
         IN  [ ok |-> spec.ok, reached_new |-> TRUE, tags_spec |-> spec ]

\* ---------------------------------------- functions applied on their own
(* The functions below are applied once to arguments drawn from bounded    *)
(* sets: call holds the function and its arguments, ret what it returned   *)
(* or left in the file it wrote.  The state of update_tags stays as        *)
(* InitLock leaves it.                                                     *)
\* longest tag file handed to a function
MaxLines == 4

\* the lines files are made of: the empty line, the two headers, two tags
LineValues == 0..4

TagFiles == UNION { [ 1..n -> LineValues ] : n \in 0..MaxLines }

\* the dependency tag files handed to merge_tags
DepFileLists == { << >>, << <<1, 2, 4>> >>, << <<4, 3>>, <<1, 2, 3, 0>> >> }

\* most lines handed to sort_lines
MaxSortLines == 3

\* the vi tag lines of the model: the empty line, headers, tags of the names
\* A and B whose address is a struct, an enum or something else, and lines
\* with fewer than three fields
ViLines ==
    { << >>,
      <<"!", "A">>,
      <<"!", "B", "TAB", "f", "TAB", "/^", "struct">>,
      <<"A", "TAB", "f", "TAB", "/^", "struct">>,
      <<"A", "TAB", "f", "TAB", "/^", " ", " ", "pub ", "struct", " ", "A">>,
      <<"A", "TAB", "f", "TAB", "/^", "enum">>,
      <<"A", "TAB", "B", "TAB", "/^", "pub ", "enum", " ", "A">>,
      <<"A", "TAB", "f", "TAB", "/^", "A">>,
      <<"A", "TAB", "B", "TAB", "/^", "pub ", "f", " ", "A">>,
      <<"A", "TAB", "f", "TAB", "struct">>,
      <<"B", "TAB", "f", "TAB", "/^", "pub ", "struct">>,
      <<"B", "TAB", "f", "TAB", "/^", "B">>,
      <<"A">>,
      <<"A", "TAB", "f">>,
      <<"B", "TAB", "/^", "struct">>,
      <<"struct", "TAB", "f", "TAB", "/^", "f">> }

\* the names a configuration file and --output give the tag files
FileNames == { "rusty-tags.vi", "rusty-tags.emacs", "tags", "TAGS" }

\* what ConfigFromFile::load returns: an error, no file, or the file's names
ConfigFiles ==
    [ is : {"Err", None}, vi_tags : {None}, emacs_tags : {None} ]
      \cup [ is : {"Some"}, vi_tags : FileNames \cup {None},
             emacs_tags : FileNames \cup {None} ]

\* most dependency entries of a package of the metadata handed to
\* dependency_tree
MaxDepEntries == 2

\* the names of the packages of that metadata
PkgNames == {1, 2, 3}

\* the dependency entries of a package: any names, in any order, a name
\* more than once, the package's own name
DepLists == UNION { [ 1..n -> PkgNames ] : n \in 0..MaxDepEntries }

\* the directory of the manifest of the package handed to source_path
ManifestDir == 9

\* the kind arrays of a target
KindLists ==
    { <<"bin">>, <<"lib">>, <<"cdylib">>, <<"proc-macro">>, <<"test">>, <<"example">>,
      <<"example", "rlib">>, <<"test", "bin">> }

\* most targets of the package handed to source_path
MaxTargets == 2

RECURSIVE TargetListsOf(_)
\* the lists of n targets, the i-th with a src_path of its own directory i:
\* any kinds, a src_path that is a file, a relative path or nothing there,
\* and targets without "kind" or without "src_path"
TargetListsOf(n) ==
    IF n = 0 THEN { << >> }
    ELSE LET full == { [ kind |-> k, src_path |-> [ form |-> f, dir |-> n ] ] :
                       k \in KindLists, f \in {"abs_file", "relative", "abs_missing"} }
             at_n == full \cup { Without(tg, "src_path") : tg \in full }
                          \cup { Without(tg, "kind") :
                                   tg \in { x \in full : x.kind = <<"lib">> } }
         IN  { Append(ts, a) : ts \in TargetListsOf(n - 1), a \in at_n }

\* the packages handed to source_path
SourcePathPackages ==
    LET full == { [ Pkg(1, << >>) EXCEPT
                      !.targets = ts,
                      !.manifest_path = [ dir |-> ManifestDir, is_dir |-> d ] ] :
                  ts \in UNION { TargetListsOf(n) : n \in 0..MaxTargets },
                  d \in BOOLEAN }
    IN  full \cup { Without(Pkg(1, << >>), k) : k \in {"targets", "manifest_path"} }

\* package 2 of the metadata handed to dependency_tree: as cargo prints it,
\* with other targets, without one of its keys, with a target without one
\* of its keys, with a source directory that does not exist
Pkg2s(d2) ==
    LET p == Pkg(2, d2)
        lib == Target(<<"lib">>, 2)
    IN  { p } \cup { Without(p, k) : k \in DOMAIN p }
            \cup { [ p EXCEPT !.targets = ts ] :
                   ts \in { << Target(<<"test">>, 2) >>,
                            << Target(<<"bin">>, 2) >>,
                            << Target(<<"bin">>, 7), Target(<<"lib">>, 2) >>,
                            << Without(lib, "kind") >>,
                            << Without(lib, "src_path") >>,
                            << lib, Without(lib, "kind") >>,
                            << Without(Target(<<"example">>, 2), "src_path"), lib >>,
                            << [ lib EXCEPT !.src_path.form = "abs_missing" ] >> } }

\* the versions of the package that comes in more than one
Versions == {1, 2}

\* a package of version v with one lib target under a directory of its own
PkgV(n, v, reqs) ==
    [ name |-> n, version |-> v,
      targets |-> << Target(<<"lib">>, 10 * n + v) >>,
      manifest_path |-> [ dir |-> 10 * n + v, is_dir |-> TRUE ],
      dependencies |-> reqs ]

\* the requirements on package 2: each set of versions
Reqs2 == { [ name |-> 2, req |-> r ] : r \in (SUBSET Versions) \ {{}} }

\* `cargo metadata` with package 2 in every version of Versions, package 1
\* requiring it up to MaxDepEntries times, with one or two workspace members
VersionedMetadatas ==
    { [ workspace_members |-> ms,
        packages |-> <<PkgV(1, 1, d1)>> \o [ i \in DOMAIN vs |-> PkgV(2, vs[i], d2) ] ] :
      ms \in { <<Req(1)>>, << [ name |-> 2, req |-> {1} ], Req(1) >>,
               << Req(1), [ name |-> 2, req |-> {2} ] >> },
      d1 \in UNION { [ 1..n -> Reqs2 ] : n \in 0..MaxDepEntries },
      d2 \in { << >>, <<Req(1)>> },
      vs \in { <<1, 2>>, <<2, 1>> } }

\* `cargo metadata` of a workspace of one or two members over three
\* packages, the third without dependencies and with or without a target
\* source_path accepts, and the same without one of its two keys
Metadatas ==
    LET full == { [ workspace_members |-> Members(ms),
                    packages |-> << Pkg(1, d1), p2,
                                    [ Pkg(3, << >>) EXCEPT !.targets = ts3 ] >> ] :
                  ms \in { <<1>>, <<1, 2>>, <<2, 1>> }, d1 \in DepLists,
                  p2 \in UNION { Pkg2s(d2) : d2 \in DepLists },
                  ts3 \in { << Target(<<"lib">>, 3) >>, << Target(<<"example">>, 3) >> } }
        plain == [ workspace_members |-> Members(<<1>>),
                   packages |-> << Pkg(1, <<2>>), Pkg(2, << >>) >> ]
    IN  full \cup { Without(plain, k) : k \in DOMAIN plain }

\* most sources and most dependency edges of a DepTree handed to
\* DepTree::ancestors
MaxNodes == 3
MaxEdges == 4

\* the DepTrees of up to MaxEdges edges over MaxNodes sources, cycles and
\* self-dependencies among them; parents is the transpose of deps
DepTrees ==
    { [ roots |-> <<1>>,
        sources |-> [ s \in 1..MaxNodes |-> TRUE ],
        deps |-> [ s \in 1..MaxNodes |-> SeqOfSet(D[s]) ],
        parents |-> [ d \in 1..MaxNodes |->
                      SeqOfSet({ p \in 1..MaxNodes : d \in D[p] }) ],
        is_root |-> [ s \in 1..MaxNodes |-> s = 1 ] ] :
      D \in { E \in [ 1..MaxNodes -> SUBSET (1..MaxNodes) ] :
                Cardinality({ e \in (1..MaxNodes) \X (1..MaxNodes) : e[2] \in E[e[1]] })
                  <= MaxEdges } }

\* most lines of a lib.rs handed to find_reexported_crates
MaxLibLines == 2

\* the lines a lib.rs of the model is written with
LibLines ==
    { <<"extern", " ", "crate", " ", "a", ";">>,
      <<"extern", " ", "crate", " ", "b", ";">>,
      <<"extern", " ", "crate", " ", "a", " ", "as", " ", "b", ";">>,
      <<"extern", "TAB", "crate", " ", "a", ";">>,
      <<"extern", " ", "crate", " ", "a", " ", ";">>,
      <<"pub", " ", "use", " ", "a", "::", "x", ";">>,
      <<"pub", " ", "use", " ", "b", "::", "x", ";">>,
      <<"pub", " ", "use", " ", "b", ";">>,
      <<"pub", " ", "use", " ", "a", "::", "x">>,
      <<"pub", "TAB", "use", " ", "a", "::", "x", ";">>,
      <<"pub", " ", " ", "use", " ", "a", "::", "x", ";">>,
      <<" ", "pub", " ", "use", " ", "a", "::", "x", ";">>,
      <<"use", " ", "a", "::", "x", ";">>,
      << >> }

LibFiles ==
    { [ is_file |-> FALSE, lines |-> << >> ] } \cup
    { [ is_file |-> TRUE, lines |-> ls ] :
        ls \in UNION { [ 1..n -> LibLines ] : n \in 0..MaxLibLines } }

\* ------------------------------------------- merge_tags on file contents
(* The Vi branch of merge_tags with the files as the bytes they hold: a    *)
(* content is a sequence of pieces, "LF" and "CR" the line feed and the    *)
(* carriage return.                                                        *)
\* the two lines of lines 300-301
HeaderLines == << <<"!", "_TAG_FILE_", "FORMAT">>, <<"!", "_TAG_FILE_", "SORTED">> >>

RECURSIVE lines_from(_, _, _)
\* contents.lines() from byte i on, cur the line begun: a line ends at "LF" or at
\* "CR" "LF", and what follows the last "LF" is a line if it is not empty
lines_from(contents, i, cur) ==
    IF i > Len(contents) THEN (IF cur = << >> THEN << >> ELSE <<cur>>)
    ELSE IF contents[i] = "LF"
         THEN LET line == IF cur # << >> /\ cur[Len(cur)] = "CR"
                          THEN SubSeq(cur, 1, Len(cur) - 1) ELSE cur
              IN  <<line>> \o lines_from(contents, i + 1, << >>)
    ELSE lines_from(contents, i + 1, Append(cur, contents[i]))

\* write_fmt("{}\n") and write_all(line), write_all("\n") for every line
written(ls) == Concat([ i \in DOMAIN ls |-> Append(ls[i], "LF") ])

\* merge_tags, lines 257-306: what into_tag_file holds after the merge of
\* lib_tag_file with a dependency list that is not empty
merge_tags_contents(lib_contents, dep_contents) ==
    LET file_contents == <<lib_contents>> \o dep_contents
        all_lines     == Concat([ i \in DOMAIN file_contents |->
                                    lines_from(file_contents[i], 1, << >>) ])
        merged_lines  == SelectSeq(all_lines, LAMBDA l : l # << >> /\ l[1] # "!")
    IN  written(HeaderLines \o Dedup(SortStr(merged_lines)))

\* longest lib_tag_file, in bytes, handed to merge_tags_contents
MaxContent == 3

\* one or two dependency tag files, each shorter than MaxContent
DepContentLists ==
    LET files == UNION { [ 1..n -> {"LF", "a", "b"} ] : n \in 0..(MaxContent - 1) }
    IN  { <<d>> : d \in files } \cup (files \X files)

upd_vars == << graph, config, lock_files, handle, run_vars >>

\* merge_tags(config, lib_tag_file, dependency_tag_files, into_tag_file),
\* with into_tag_file either a file of its own or lib_tag_file itself
call_merge_tags ==
    /\ call = NoCall
    /\ \E kind \in {"Vi", "Emacs"}, lib_lines \in TagFiles, deps \in DepFileLists,
          same \in BOOLEAN, old \in { << >>, <<9>> } :
         LET lib        == TmpSrcPath(1, 1)
             into       == IF same THEN lib ELSE TmpOutPath(1, 1)
             into_lines == IF same THEN lib_lines ELSE old
             dep_paths  == [ i \in DOMAIN deps |-> CachedPath(i + 1) ]
         IN  /\ call' = [ fn |-> "merge_tags", kind |-> kind, lib |-> lib,
                          lib_lines |-> lib_lines, dep_lines |-> deps,
                          into |-> into, into_lines |-> into_lines ]
             /\ ret' = [ lines |-> merge_tags(kind, lib, lib_lines, dep_paths, deps,
                                              into, into_lines) ]
    /\ UNCHANGED upd_vars

\* merge_tags(config, lib_tag_file, dependency_tag_files, into_tag_file) in
\* Vi mode with dependency tag files, on the contents of the files; the
\* lib_tag_file holds up to MaxContent bytes
call_merge_tags_contents ==
    /\ call = NoCall
    /\ \E lib_contents \in UNION { [ 1..n -> {"LF", "CR", "!", "a", "b"} ] :
                                    n \in 0..MaxContent },
          dep_contents \in DepContentLists :
         /\ call' = [ fn |-> "merge_tags_contents", lib_contents |-> lib_contents,
                      dep_contents |-> dep_contents ]
         /\ ret' = [ contents |-> merge_tags_contents(lib_contents, dep_contents) ]
    /\ UNCHANGED upd_vars

\* find_reexported_crates(src_dir)
call_find_reexported_crates ==
    /\ call = NoCall
    /\ \E lib_rs \in LibFiles :
         /\ call' = [ fn |-> "find_reexported_crates", lib_rs |-> lib_rs ]
         /\ ret' = [ crates |-> find_reexported_crates(lib_rs) ]
    /\ UNCHANGED upd_vars

call_sort_lines ==
    /\ call = NoCall
    /\ \E n \in 0..MaxSortLines :
         \E str_lines \in [ 1..n -> ViLines ] :
           /\ call' = [ fn |-> "sort_lines", str_lines |-> str_lines ]
           /\ ret' = [ lines |-> sort_lines(str_lines) ]
    /\ UNCHANGED upd_vars

call_from_command_args ==
    /\ call = NoCall
    /\ \E kind \in {"Vi", "Emacs"}, load \in ConfigFiles,
          output \in FileNames \cup {None}, exe_found \in BOOLEAN :
         /\ call' = [ fn |-> "from_command_args", kind |-> kind, load |-> load,
                      output |-> output, exe_found |-> exe_found ]
         /\ ret' = from_command_args(kind, load, output, exe_found)
    /\ UNCHANGED upd_vars

call_dependency_tree ==
    /\ call = NoCall
    /\ \E omit_deps \in BOOLEAN, metadata \in Metadatas \cup VersionedMetadatas :
         /\ call' = [ fn |-> "dependency_tree", omit_deps |-> omit_deps,
                      metadata |-> metadata ]
         /\ ret' = dependency_tree(omit_deps, metadata)
    /\ UNCHANGED upd_vars

\* source_path(config, package, is_root)
call_source_path ==
    /\ call = NoCall
    /\ \E package \in SourcePathPackages, is_root \in BOOLEAN :
         /\ call' = [ fn |-> "source_path", package |-> package, is_root |-> is_root ]
         /\ ret' = source_path(package, is_root)
    /\ UNCHANGED upd_vars

call_ancestors ==
    /\ call = NoCall
    /\ \E tree \in DepTrees, S \in SUBSET (1..MaxNodes) :
         /\ call' = [ fn |-> "ancestors", tree |-> tree, sources |-> SeqOfSet(S) ]
         /\ ret' = [ ancestor_srcs |-> ancestors(tree, SeqOfSet(S)) ]
    /\ UNCHANGED upd_vars

\* ------------------------------------------------------------ create_tags
\* the longest output of the tag tool on a stream
MaxOut == 2

\* what the tool writes on a stream, byte by byte: two bytes of text and a
\* byte that is no UTF-8
ToolBytes == {"e", "o", "\\xFF"}

ToolOutputs == UNION { [ 1..n -> ToolBytes ] : n \in 0..MaxOut }

\* String::from_utf8_lossy: the text, with U+FFFD for what is no UTF-8
from_utf8_lossy(bytes) ==
    [ i \in DOMAIN bytes |-> IF bytes[i] = "\\xFF" THEN "U+FFFD" ELSE bytes[i] ]

\* what cmd.output() gives: an io::Error when the tool cannot be started,
\* else the exit status and what the tool wrote
CmdOutputs ==
    [ spawned : {FALSE}, io_err : {"NotFound", "PermissionDenied"} ]
      \cup [ spawned : {TRUE}, success : BOOLEAN,
             stderr : ToolOutputs, stdout : ToolOutputs ]

\* the message of line 206
SilentFailure == <<"ctags execution failed without any stderr or stdout output">>

\* a create_tags that reports stderr and never falls back on stdout
create_tags_returns_stderr_only(output) ==
    IF ~output.spawned
    THEN [ tag |-> "Err",
           msg |-> <<"'ctags' execution failed: ", output.io_err,
                     "\nIs 'ctags' correctly installed?">> ]
    ELSE IF ~output.success
         THEN LET msg1 == from_utf8_lossy(output.stderr)
              IN  [ tag |-> "Err", msg |-> IF msg1 = << >> THEN SilentFailure ELSE msg1 ]
         ELSE [ tag |-> "Ok", msg |-> << >> ]

\* create_tags, lines 196-212: what it returns for what cmd.output() gave
create_tags_returns(output) ==
    IF ~output.spawned
    THEN [ tag |-> "Err",
           msg |-> <<"'ctags' execution failed: ", output.io_err,
                     "\nIs 'ctags' correctly installed?">> ]
    ELSE IF ~output.success
         THEN LET msg1 == from_utf8_lossy(output.stderr)
                  msg2 == IF msg1 = << >> THEN from_utf8_lossy(output.stdout) ELSE msg1
                  msg3 == IF msg2 = << >> THEN SilentFailure ELSE msg2
              IN  [ tag |-> "Err", msg |-> msg3 ]
         ELSE [ tag |-> "Ok", msg |-> << >> ]

\* create_tags(config, src_dirs, tags_file), from cmd.output() on
call_create_tags ==
    /\ call = NoCall
    /\ \E output \in CmdOutputs :
         /\ call' = [ fn |-> "create_tags", output |-> output ]
         /\ ret' = create_tags_returns(output)
    /\ UNCHANGED upd_vars

\* ---------------------------------------------------- update_std_lib_tags
\* main.rs, lines 210-227
possible_src_dirs ==
    << "liballoc", "libarena", "libbacktrace", "libcollections", "libcore", "libflate",
       "libfmt_macros", "libgetopts", "libgraphviz", "liblog", "librand", "librbml",
       "libserialize", "libstd", "libsyntax", "libterm" >>

\* what update_std_lib_tags did: src_dirs and tags_file are the arguments of
\* its create_tags call, if it made one
StdLibRun(res, called, src_dirs, tags_dir) ==
    [ result |-> res, create_tags_called |-> called, src_dirs |-> src_dirs,
      tags_file |-> [ dir |-> tags_dir, name |-> "tags_file_name" ] ]

\* update_std_lib_tags, main.rs:193-239.  rust_src is what RUST_SRC_PATH
\* names, is_file[d] whether the tag file in directory d is a file, dirs
\* the subdirectories of the source path that are directories, tool_ok
\* whether create_tags returns Ok; "rust_src_path" is the directory
\* RUST_SRC_PATH names, "output_dir_std" the one given to --output-dir-std
update_std_lib_tags_returns(force_recreate, output_dir_std, rust_src, is_file, dirs, tool_ok) ==
    IF rust_src = "unset" THEN StdLibRun("Ok", FALSE, << >>, "none")
    ELSE IF rust_src = "not_dir" THEN StdLibRun("Err", FALSE, << >>, "none")
    ELSE IF is_file["rust_src_path"] /\ ~force_recreate
         THEN StdLibRun("Ok", FALSE, << >>, "none")
    ELSE LET src_dirs == SelectSeq(possible_src_dirs, LAMBDA dir : dir \in dirs)
         IN  StdLibRun(IF tool_ok THEN "Ok" ELSE "Err", TRUE, src_dirs, "rust_src_path")

\* update_std_lib_tags(config): output_dir_std is None or a directory, the
\* source path has any of three of the candidates and a directory that is
\* no candidate
call_update_std_lib_tags ==
    /\ call = NoCall
    /\ \E force_recreate \in BOOLEAN,
          output_dir_std \in { [ is |-> "None", dir |-> "none" ],
                               [ is |-> "Some", dir |-> "output_dir_std" ] },
          rust_src \in {"unset", "not_dir", "dir"},
          is_file \in [ {"rust_src_path", "output_dir_std"} -> BOOLEAN ],
          dirs \in SUBSET {"liballoc", "libcore", "libstd", "libtest"}, tool_ok \in BOOLEAN :
         /\ call' = [ fn |-> "update_std_lib_tags", force_recreate |-> force_recreate,
                      output_dir_std |-> output_dir_std, RUST_SRC_PATH |-> rust_src,
                      is_file |-> is_file, dirs |-> dirs, tool_ok |-> tool_ok ]
         /\ ret' = update_std_lib_tags_returns(force_recreate, output_dir_std.dir,
                                               rust_src, is_file, dirs, tool_ok)
    /\ UNCHANGED upd_vars

FnInit == InitLock /\ config.kind = "Vi"

FnNext ==
    \/ call_merge_tags
    \/ call_merge_tags_contents
    \/ call_find_reexported_crates
    \/ call_sort_lines
    \/ call_from_command_args
    \/ call_dependency_tree
    \/ call_ancestors
    \/ call_create_tags
    \/ call_source_path
    \/ call_update_std_lib_tags

FnSpec == FnInit /\ [][FnNext]_vars

\* -------------------------------------------------------- update_all_tags
(* main.rs: update_all_tags walks the TagsRoots read_dependencies returns. *)
(* call holds the arguments of the run, ret the locals of update_all_tags  *)
(* and what the run did so far.  The functions it calls that are not among *)
(* the sources (update_tags(config, dep), update_tags_and_check_for_       *)
(* reexports, Tags::is_up_to_date, read_dependencies) return any of their  *)
(* outcomes.                                                               *)
\* most TagsRoots of a project, most dependencies of a TagsRoot
MaxRoots == 2
MaxDeps == 2

\* read_dependencies: the TagsRoots of a project
TagsRootLists ==
    UNION { [ 1..n -> [ kind : {"Proj", "Lib"}, dependencies : 0..MaxDeps ] ] :
              n \in 0..MaxRoots }

\* the final tag file update_all_tags writes for TagsRoot i, and the
\* standard library's tag file
RootTagsPath(i) == <<"root_tags", i>>
StdLibTagsPath == <<"rust_src_tags", 0>>

\* execute, lines 48-51: Config::from_command_args succeeded
start_update_all_tags ==
    /\ call = NoCall
    /\ \E roots \in TagsRootLists, force \in BOOLEAN,
          rust_src \in {"unset", "not_dir", "dir"}, std_tags \in BOOLEAN :
         call' = [ fn |-> "update_all_tags", tags_roots |-> roots,
                   force_recreate |-> force, RUST_SRC_PATH |-> rust_src,
                   std_tags_is_file |-> std_tags ]
    /\ ret' = [ pc |-> "fetch", i |-> 0, j |-> 0, missing_sources |-> << >>,
                tag_files |-> << >>, result |-> "none", tool_outputs |-> {},
                reported |-> {}, updated |-> {}, skipped |-> {},
                failed |-> {} ]
    /\ UNCHANGED upd_vars

AtAllTags(where) == call.fn = "update_all_tags" /\ ret.pc = where

\* the run ends with the error a try! or a `return Err` hands back
Abort(err) == [ ret EXCEPT !.pc = "done", !.result = err ]

\* update_all_tags, line 54, fetch_source_of_dependencies
fetch_source_of_dependencies ==
    /\ AtAllTags("fetch")
    /\ \/ ret' = [ ret EXCEPT !.pc = "std" ]
       \/ ret' = Abort("Message")
    /\ UNCHANGED << upd_vars, call >>

\* update_all_tags, lines 55-58: update_std_lib_tags, then find_cargo_toml_dir
\* and read_dependencies
update_std_lib_tags ==
    /\ AtAllTags("std")
    /\ LET on == [ ret EXCEPT !.pc = "root", !.i = 1 ]
       IN  CASE call.RUST_SRC_PATH = "unset" -> ret' \in { on, Abort("Message") }
             [] call.RUST_SRC_PATH = "not_dir" -> ret' = Abort("Message")
             [] OTHER ->
                  IF call.std_tags_is_file /\ ~call.force_recreate
                  THEN ret' \in { on, Abort("Message") }
                  ELSE ret' \in
                         { [ r EXCEPT !.tool_outputs = @ \cup {StdLibTagsPath} ] :
                             r \in { on, Abort("Message") } }
    /\ UNCHANGED << upd_vars, call >>

\* what update_tags(config, dep) and update_tags_and_check_for_reexports
\* return: Ok, Err(MissingSource) or another Err
UpdateOutcomes == {"Ok", "MissingSource", "Message"}

\* update_all_tags, lines 61-73 and 90-112: the next TagsRoot is taken up
begin_root ==
    /\ AtAllTags("root")
    /\ ret.i <= Len(call.tags_roots)
    /\ LET i    == ret.i
           skip == [ ret EXCEPT !.i = i + 1, !.tag_files = << >> ]
           deps == [ ret EXCEPT !.pc = "deps", !.j = 1,
                                !.tag_files = <<RootTagsPath(i)>> ]
       IN  IF call.tags_roots[i].kind = "Proj"
           THEN \E ok \in BOOLEAN :
                  ret' = [ (IF ok THEN deps ELSE Abort("Message")) EXCEPT
                             !.tool_outputs = @ \cup {RootTagsPath(i)} ]
           ELSE \E out \in UpdateOutcomes, up_to_date \in BOOLEAN :
                  ret' = CASE out = "Ok" ->
                                IF up_to_date /\ ~call.force_recreate
                                THEN [ skip EXCEPT !.updated = @ \cup {<<i, 0>>},
                                                   !.skipped = @ \cup {i} ]
                                ELSE [ deps EXCEPT !.tag_files = <<CachedPath(i)>>,
                                                   !.updated = @ \cup {<<i, 0>>} ]
                           [] out = "MissingSource" ->
                                [ skip EXCEPT !.missing_sources = Append(@, <<i, 0>>),
                                              !.reported = @ \cup {<<i, 0>>} ]
                           [] OTHER -> [ Abort("Message") EXCEPT
                                           !.failed = @ \cup {<<i, 0>>} ]
    /\ UNCHANGED << upd_vars, call >>

\* update_dep with every Err of update_tags returned, MissingSource too
update_dep_returning_every_err ==
    /\ AtAllTags("deps")
    /\ ret.j <= call.tags_roots[ret.i].dependencies
    /\ LET d == <<ret.i, ret.j>>
       IN  \E out \in UpdateOutcomes :
             ret' = CASE out = "Ok" ->
                           [ ret EXCEPT !.j = @ + 1, !.updated = @ \cup {d},
                                        !.tag_files = Append(@, CachedPath(ret.j)) ]
                      [] out = "MissingSource" ->
                           [ Abort("MissingSource") EXCEPT !.reported = @ \cup {d} ]
                      [] OTHER -> [ Abort("Message") EXCEPT !.failed = @ \cup {d} ]
    /\ UNCHANGED << upd_vars, call >>

\* update_all_tags, lines 75-85 and 114-124: update_tags(config, dep) for the
\* next dependency of the TagsRoot
update_dep ==
    /\ AtAllTags("deps")
    /\ ret.j <= call.tags_roots[ret.i].dependencies
    /\ LET d == <<ret.i, ret.j>>
       IN  \E out \in UpdateOutcomes :
             ret' = CASE out = "Ok" ->
                           [ ret EXCEPT !.j = @ + 1, !.updated = @ \cup {d},
                                        !.tag_files = Append(@, CachedPath(ret.j)) ]
                      [] out = "MissingSource" ->
                           [ ret EXCEPT !.j = @ + 1, !.reported = @ \cup {d},
                                        !.missing_sources = Append(@, d) ]
                      [] OTHER -> [ Abort("Message") EXCEPT !.failed = @ \cup {d} ]
    /\ UNCHANGED << upd_vars, call >>

\* update_all_tags, lines 130-137: the tag files of the TagsRoot are merged
\* into its tag file
merge_root ==
    /\ AtAllTags("deps")
    /\ ret.j > call.tags_roots[ret.i].dependencies
    /\ \/ ret' = [ ret EXCEPT !.pc = "root", !.i = @ + 1, !.tag_files = << >> ]
       \/ ret' = Abort("Message")
    /\ UNCHANGED << upd_vars, call >>

\* update_all_tags, lines 140-154: the missing sources are printed and the
\* run returns Ok
finish_update_all_tags ==
    /\ AtAllTags("root")
    /\ ret.i > Len(call.tags_roots)
    /\ ret' = [ ret EXCEPT !.pc = "done", !.result = "Ok" ]
    /\ UNCHANGED << upd_vars, call >>

AllTagsNext ==
    \/ start_update_all_tags
    \/ fetch_source_of_dependencies
    \/ update_std_lib_tags
    \/ begin_root
    \/ update_dep
    \/ merge_root
    \/ finish_update_all_tags

AllTagsSpec == FnInit /\ [][AllTagsNext]_vars

\* ================================================================= claims
Finished(p, s) == published[p][s].cached >= 1 /\ published[p][s].tags >= 1

\* C1: in update_tags, every selected source of max_depth d+1 has finished
\* its work (cached and project file published) before any selected source
\* of max_depth d begins its merge step, for every num_threads >= 1.
C1_DepthBandsOrdered ==
    \A p \in Procs : \A s \in begun[p] : \A d \in Range(plan[p]) :
        max_depth(G, d) = max_depth(G, s) + 1 => Finished(p, d)

RECURSIVE AncestorClosure(_, _)
\* S and every source from which a source of S is reachable along
\* dependency edges
AncestorClosure(g, S) ==
    LET n == S \cup { q \in all_sources(g) : \E d \in S : d \in Range(g.deps[q]) }
    IN  IF n = S THEN S ELSE AncestorClosure(g, n)

\* the sources that are dirty for the files now on disk
DirtySet ==
    { s \in Sources :
        config.force_recreate \/ G.is_root[s] \/ ~cached[s].exists \/ ~tags[s].exists }

\* C3: the sources whose tag files update_tags writes are exactly the dirty
\* sources and all their transitive parents, each processed exactly once.
\* (While tags are generated no final file has changed, so DirtySet is the
\* dirty set the run started with.)
C3_WritesAncestorClosureOnce ==
    \A p \in Procs :
        /\ pc[p] = "phase1" =>
             /\ Range(plan[p]) = AncestorClosure(G, DirtySet)
             /\ Len(plan[p]) = Cardinality(Range(plan[p]))
        /\ \A s \in Sources :
             /\ published[p][s].cached <= 1 /\ published[p][s].tags <= 1
             /\ published[p][s].cached + published[p][s].tags > 0 => s \in Range(plan[p])
        /\ result[p].tag = "Ok" => \A s \in Range(plan[p]) : Finished(p, s)

\* in the chain 1 -> 2 -> 3 -> 4 only the root and the leaf are dirty, and the
\* run has written all four sources
C3_Witness ==
    \E p \in Procs :
        /\ graph = 8 /\ run[p] = 1
        /\ ~config.force_recreate
        /\ \A s \in {1, 2, 3} : cached[s].by = Me(p) /\ tags[s].by = Me(p)
        /\ Range(plan[p]) = {1, 2, 3, 4}
        /\ result[p].tag = "Ok"

\* C4 as stated: after update_tags returns Ok, the tags_file and the
\* cached_tags_file of every selected source exist and are non-empty.
C4_SelectedFilesNonEmpty ==
    \A p \in Procs :
        result[p].tag = "Ok" =>
            \A s \in Range(plan[p]) :
                /\ cached[s].exists /\ cached[s].lines # << >>
                /\ tags[s].exists /\ tags[s].lines # << >>

\* C4 as amended: after update_tags returns Ok, both files of every selected
\* source exist, and each is non-empty whenever the tag tool's output for
\* the source is non-empty.
C4_SelectedFilesExist ==
    \A p \in Procs :
        result[p].tag = "Ok" =>
            \A s \in Range(plan[p]) :
                /\ cached[s].exists /\ tags[s].exists
                /\ ctags_output(G, config, s) # << >> =>
                     cached[s].lines # << >> /\ tags[s].lines # << >>

\* a run returned Ok after creating files that did not exist, one of them
\* for a source whose tool output is empty
C4_Witness ==
    \E p \in Procs :
        /\ result[p].tag = "Ok" /\ run[p] = 1
        /\ overwrote[p] = {}
        /\ Len(plan[p]) >= 3
        /\ \E s \in Range(plan[p]) : ctags_output(G, config, s) = << >>
        /\ \E s \in Range(plan[p]) : ctags_output(G, config, s) # << >>

\* C5 as stated: with force_recreate false and no source edited, the second
\* of two consecutive runs writes no tag file that already exists.
C5_SecondRunWritesNothing ==
    \A p \in Procs :
        (run[p] >= 2 /\ ~config.force_recreate) => overwrote[p] = {}

\* C5 as amended: with force_recreate false, no source edited and the first
\* run returning Ok, the second run writes only the tag files of the sources
\* with is_root and of their transitive parents.
C5_SecondRunWritesRootsOnly ==
    \A p \in Procs :
        (run[p] >= 2 /\ ~config.force_recreate) =>
            \A s \in Sources :
                published[p][s].cached + published[p][s].tags > 0 =>
                    s \in AncestorClosure(G, { r \in Sources : G.is_root[r] })

\* a second run returned Ok having rewritten the root and left a dependency's
\* files as the first run published them
C5_Witness ==
    \E p \in Procs :
        /\ run[p] >= 2 /\ ~config.force_recreate /\ result[p].tag = "Ok"
        /\ \E s \in Sources : G.is_root[s] /\ CachedPath(s) \in overwrote[p]
        /\ \E s \in Sources : cached[s].by = <<p, 1>> /\ tags[s].by = <<p, 1>>

\* C6: of two processes calling Source::lock for one source and one tags
\* kind, at most one holds SourceLock::Locked at a time.
C6_LockExclusive ==
    \A p, q \in Procs :
        (p # q /\ handle[p].st = "Locked" /\ handle[q].st = "Locked")
            => handle[p].src # handle[q].src

\* C7: a selected source whose lock file exists is neither regenerated nor
\* published in this run, and the run does not fail because of it.
C7_LockedSourceSkipped ==
    \A p \in Procs : \A s \in lock_files :
        /\ published[p][s].cached = 0 /\ published[p][s].tags = 0
        /\ s \notin begun[p]

\* C8: when the work of a source fails, update_tags hands out no further
\* source and returns that first error as an Err value, with and without a
\* thread pool.
C8_FirstErrorReturned ==
    \A p \in Procs :
        first_err[p] # 0 =>
            /\ late[p] = {}
            /\ pc[p] = "done" => result[p] = [ tag |-> "Err", src |-> first_err[p] ]

\* C9: the process exits with 0 when every step succeeds and with 1 on any
\* failure, also one inside a thread-pool worker.
C9_ExitCode ==
    \A p \in Procs :
        pc[p] = "done" =>
            exit_code(result[p]) = (IF first_err[p] = 0 THEN 0 ELSE 1)

\* the lines are the two headers followed by tag lines in strictly ascending
\* order
SortedViFile(ls) ==
    /\ Len(ls) >= 2 /\ SubSeq(ls, 1, 2) = Headers
    /\ \A i \in 3..Len(ls) : ~IsHeader(ls[i])
    /\ \A i \in 3..(Len(ls) - 1) : ls[i] < ls[i + 1]

PublishedVi == { f \in Range(cached) \cup Range(tags) : f.exists /\ f.by # <<0, 0>> }

\* C10 as stated: every vi tag file update_tags publishes, for any number of
\* dependency tag files including zero, is the two headers followed by
\* ascending lines without adjacent duplicates.
C10_PublishedViSorted ==
    config.kind = "Vi" => \A f \in PublishedVi : SortedViFile(f.lines)

\* C10 as amended: a vi tag file published with at least one dependency tag
\* file merged in is the two headers followed by strictly ascending lines; a
\* file published with none is a copy of the tag tool's output.
C10_MergedViSorted ==
    config.kind = "Vi" =>
        \A s \in Sources :
            /\ (cached[s].exists /\ cached[s].by # <<0, 0>>) =>
                 \/ SortedViFile(cached[s].lines)
                 \/ cached[s].lines = ctags_output(G, config, s)
            /\ (tags[s].exists /\ tags[s].by # <<0, 0>>) =>
                 \/ SortedViFile(tags[s].lines)
                 \/ tags[s].lines = ctags_output(G, config, s)

\* the project file of source 1 of the first project holds the merged,
\* de-duplicated tags of sources 1 and 2 although the tool sorted nothing
C10_Witness ==
    /\ config.kind = "Vi" /\ ~config.tool_sorts /\ graph = 1
    /\ tags[1].by # <<0, 0>>
    /\ tags[1].lines = Headers \o <<3, 4, 5>>

\* the emacs include lines of a file, in the order they stand in it
IncludeLines(ls) == SelectSeq(ls, LAMBDA l : l > IncludeLine(0))

\* C11: in Emacs mode every published tag file holds each include line at
\* most once, and the cached tag file of a source holds no include line
\* naming that cached file itself.  (An include line names a cached file,
\* so no include line can name a project tag file.)
C11_EmacsIncludesOnce ==
    config.kind = "Emacs" =>
        \A s \in Sources :
            /\ \A f \in {cached[s], tags[s]} :
                 (f.exists /\ f.by # <<0, 0>>) =>
                     Len(IncludeLines(f.lines)) = Cardinality(Range(IncludeLines(f.lines)))
            /\ (cached[s].exists /\ cached[s].by # <<0, 0>>) =>
                 IncludeLine(s) \notin Range(cached[s].lines)

\* C12: merge_tags in Vi mode with an empty dependency list leaves
\* into_tag_file with exactly the lines of lib_tag_file when the two are
\* different files, and leaves the file as it was when they are the same
\* file.
C12_MergeNoDepsCopies ==
    (call.fn = "merge_tags" /\ call.kind = "Vi" /\ call.dep_lines = << >>) =>
        IF call.lib # call.into THEN ret.lines = call.lib_lines
        ELSE ret.lines = call.into_lines

\* an already merged vi file (what merging <<4, 3>> with the dependency file
\* <<1, 2, 4>> gives) was merged with no dependency into a file that held
\* something else
C12_Witness ==
    /\ call.fn = "merge_tags" /\ call.kind = "Vi" /\ call.dep_lines = << >>
    /\ call.lib # call.into /\ call.into_lines = <<9>>
    /\ call.lib_lines = merge_tags("Vi", call.lib, <<4, 3>>, <<CachedPath(2)>>,
                                   << <<1, 2, 4>> >>, call.into, << >>)
    /\ ret.lines = <<1, 2, 3, 4>>

RECURSIVE split_ascii_whitespace(_)
\* the words of a line: the pieces between runs of spaces and tabs
split_ascii_whitespace(s) ==
    IF s = << >> THEN << >>
    ELSE IF Head(s) \in {" ", "TAB"} THEN split_ascii_whitespace(Tail(s))
    ELSE LET ends == { k \in DOMAIN s : s[k] \in {" ", "TAB"} }
             n    == IF ends = {} THEN Len(s)
                     ELSE (CHOOSE k \in ends : \A j \in ends : k <= j) - 1
         IN  <<SubSeq(s, 1, n)>> \o split_ascii_whitespace(SubSeq(s, n + 1, Len(s)))

\* the words of a line once a trailing ';' is stripped
WordsOf(line) ==
    split_ascii_whitespace(IF line # << >> /\ line[Len(line)] = ";"
                           THEN SubSeq(line, 1, Len(line) - 1) ELSE line)

\* the crates re-exported by the lines, as the claim defines it: n is
\* declared by `extern crate n` or `extern crate n as a`, and some
\* `pub use` line has a (n without `as`) as its leading path segment
ReexportedAsClaimed(lines) ==
    LET decls == { [ name |-> WordsOf(lines[i])[3],
                     as_name |-> IF Len(WordsOf(lines[i])) = 3 THEN WordsOf(lines[i])[3]
                                 ELSE WordsOf(lines[i])[5] ] :
                     i \in { k \in DOMAIN lines :
                               LET ws == WordsOf(lines[k])
                               IN  /\ Len(ws) \in {3, 5}
                                   /\ ws[1] = <<"extern">> /\ ws[2] = <<"crate">>
                                   /\ Len(ws) = 5 => ws[4] = <<"as">> } }
        uses  == { split(WordsOf(lines[i])[3], "::")[1] :
                     i \in { k \in DOMAIN lines :
                               LET ws == WordsOf(lines[k])
                               IN  Len(ws) >= 3 /\ ws[1] = <<"pub">> /\ ws[2] = <<"use">> } }
    IN  { d.name : d \in { x \in decls : x.as_name \in uses } }

\* C13: find_reexported_crates returns n if and only if lib.rs declares the
\* extern crate n with alias a and has a `pub use` line whose leading path
\* segment is a, the lines being split on ASCII whitespace with a trailing
\* ';' stripped; it returns nothing when lib.rs is absent.
C13_ReexportedIffDeclaredAndUsed ==
    call.fn = "find_reexported_crates" =>
        ret.crates = (IF call.lib_rs.is_file THEN ReexportedAsClaimed(call.lib_rs.lines)
                      ELSE {})

\* C14: every source of DepTree.roots has is_root set, so that
\* needs_tags_update holds for it and every run of update_tags selects every
\* workspace member, whatever tag files exist.
C14_RootsAlwaysRebuilt ==
    \A p \in Procs :
        pc[p] \in {"phase1", "phase2", "done"} =>
            \A r \in Range(G.roots) :
                /\ G.is_root[r]
                /\ needs_tags_update(G, config, r, cached, tags)
                /\ r \in Range(plan[p])

\* a path of a NamedTempFile, as update_tags passes to create_tags
IsTemporary(path) == path[1] \in {"tmp_src", "tmp_out"}

\* C15: every output path handed to create_tags is a temporary file, never
\* the tag file of a project root or of the standard library.
C15_ToolWritesTemporaryOnly ==
    call.fn = "update_all_tags" =>
        \A path \in ret.tool_outputs : IsTemporary(path)

\* TagsRoot i was taken up by the run
RootVisited(i) ==
    IF call.tags_roots[i].kind = "Proj" THEN RootTagsPath(i) \in ret.tool_outputs
    ELSE <<i, 0>> \in ret.updated \cup ret.reported

\* every dependency of TagsRoot i was handed to update_tags
DepsProcessed(i) ==
    \A j \in 1..call.tags_roots[i].dependencies :
        <<i, j>> \in ret.updated \cup ret.reported

\* what C16 has in common with its amended form: MissingSource is never the
\* run's result, every reported source is recorded, another Err of an update
\* call ends the run at once with that Err, and an Ok run took up every root
MissingSourceTolerated ==
    /\ ret.result # "MissingSource"
    /\ Range(ret.missing_sources) = ret.reported
    /\ ret.failed # {} => ret.pc = "done" /\ ret.result = "Message"
                          /\ Cardinality(ret.failed) = 1
    /\ ret.result = "Ok" => \A i \in DOMAIN call.tags_roots : RootVisited(i)

\* C16 as stated: after a MissingSource from a dependency or a library root
\* the run goes on, all remaining dependencies and roots are processed and
\* the run returns Ok; another error of these calls is returned.
C16_MissingSourceNeverAborts ==
    call.fn = "update_all_tags" =>
        /\ MissingSourceTolerated
        /\ ret.result = "Ok" =>
             \A i \in DOMAIN call.tags_roots : i \notin ret.skipped => DepsProcessed(i)

\* C16 amended: as above, except that the dependencies of a library root
\* whose own update reported MissingSource are not processed.
C16_MissingSourceSkipsItsRoot ==
    call.fn = "update_all_tags" =>
        /\ MissingSourceTolerated
        /\ ret.result = "Ok" =>
             \A i \in DOMAIN call.tags_roots :
                 IF <<i, 0>> \in ret.reported
                 THEN \A j \in 1..MaxDeps : <<i, j>> \notin ret.updated \cup ret.reported
                 ELSE i \notin ret.skipped => DepsProcessed(i)

C16_Witness ==
    /\ AtAllTags("done") /\ ret.result = "Ok"
    /\ Len(call.tags_roots) = 2
    /\ <<1, 1>> \in ret.reported /\ <<1, 2>> \in ret.updated
    /\ <<2, 0>> \in ret.reported /\ call.tags_roots[2].dependencies = 2

\* C17 in its own words: a header line starts with '!'; a tag line is any
\* other line with two tabs or more; the rest is not a well-formed tag
Tabs(line) == Cardinality({ i \in DOMAIN line : line[i] = "TAB" })
HeaderLine(line) == line # << >> /\ line[1] = "!"
TagLine(line) == ~HeaderLine(line) /\ Tabs(line) >= 2
FirstTab(line) == CHOOSE i \in DOMAIN line : line[i] = "TAB" /\ Tabs(SubSeq(line, 1, i)) = 1
TagName(line) == SubSeq(line, 1, FirstTab(line) - 1)
\* the pieces of the address field that are neither blanks nor `pub `
Address(line) ==
    LET i == CHOOSE k \in DOMAIN line : line[k] = "TAB" /\ Tabs(SubSeq(line, 1, k)) = 2
        rest == SubSeq(line, i + 1, Len(line))
        j == IF "TAB" \in Range(rest)
             THEN (CHOOSE k \in DOMAIN rest : rest[k] = "TAB" /\ Tabs(SubSeq(rest, 1, k)) = 1) - 1
             ELSE Len(rest)
    IN  SelectSeq(SubSeq(rest, 1, j), LAMBDA x : x \notin {" ", "pub "})
\* 1 for the definition of a struct, 2 for that of an enum, 3 otherwise
DefinitionClass(line) ==
    LET a == Address(line)
    IN  IF Len(a) >= 2 /\ a[1] = "/^" /\ a[2] = "struct" THEN 1
        ELSE IF Len(a) >= 2 /\ a[1] = "/^" /\ a[2] = "enum" THEN 2
        ELSE 3
LineClass(line) == IF HeaderLine(line) THEN 1 ELSE IF TagLine(line) THEN 2 ELSE 3
CountOf(x, s) == Cardinality({ i \in DOMAIN s : s[i] = x })

\* C17: sort_lines returns its lines rearranged so that headers precede tag
\* lines, tag lines precede the lines that are no well-formed tag, tag lines
\* ascend by name, and for one name struct definitions precede enum
\* definitions, which precede the other tags.
C17_SortLinesOrder ==
    call.fn = "sort_lines" =>
        /\ \A x \in ViLines : CountOf(x, ret.lines) = CountOf(x, call.str_lines)
        /\ \A i, j \in DOMAIN ret.lines :
             i < j =>
               LET a == ret.lines[i]
                   b == ret.lines[j]
               IN  /\ LineClass(a) <= LineClass(b)
                   /\ TagLine(a) /\ TagLine(b) =>
                        /\ ~StrLess(TagName(b), TagName(a))
                        /\ TagName(a) = TagName(b) =>
                             DefinitionClass(a) <= DefinitionClass(b)

C17_Witness ==
    /\ call.fn = "sort_lines"
    /\ call.str_lines = << <<"A", "TAB", "f", "TAB", "/^", "A">>,
                           <<"A", "TAB", "B", "TAB", "/^", "pub ", "enum", " ", "A">>,
                           <<"A", "TAB", "f", "TAB", "/^", "struct">> >>
    /\ ret.lines = << call.str_lines[3], call.str_lines[2], call.str_lines[1] >>

\* the name the tag files of one kind end up with: --output if it is given
\* for that kind, else the configuration file's name, else the default
NameAfterOverrides(of_kind, default) ==
    IF call.output # None /\ call.kind = of_kind THEN call.output
    ELSE IF call.load.is = "Some"
         THEN LET n == IF of_kind = "Vi" THEN call.load.vi_tags ELSE call.load.emacs_tags
              IN  IF n # None THEN n ELSE default
    ELSE default

\* C18: TagsSpec::new, once reached, fails exactly when the vi name after the
\* overrides equals the emacs name, and every Config that is returned has a
\* TagsSpec with two different names.
C18_NamesDiffer ==
    call.fn = "from_command_args" =>
        /\ ret.reached_new =>
             (~ret.tags_spec.ok <=>
                NameAfterOverrides("Vi", "rusty-tags.vi")
                  = NameAfterOverrides("Emacs", "rusty-tags.emacs"))
        /\ ret.ok =>
             /\ ret.tags_spec.vi_tags # ret.tags_spec.emacs_tags
             /\ ret.tags_spec.vi_tags = NameAfterOverrides("Vi", "rusty-tags.vi")
             /\ ret.tags_spec.emacs_tags = NameAfterOverrides("Emacs", "rusty-tags.emacs")

C18_Witness ==
    /\ call.fn = "from_command_args"
    /\ call.kind = "Emacs" /\ call.output = "tags"
    /\ call.load.is = "Some" /\ call.load.vi_tags = "tags"
    /\ call.load.emacs_tags = "TAGS"
    /\ ret.reached_new /\ ~ret.tags_spec.ok /\ ~ret.ok

\* the project tag file of a holds what the cached tag file of b holds now:
\* its lines in Vi mode, the include line of its path in Emacs mode
HoldsCachedOf(a, b) ==
    IF config.kind = "Vi"
    THEN Range(cached[b].lines) \subseteq Range(tags[a].lines)
    ELSE IncludeLine(b) \in Range(tags[a].lines)

\* C19: after an Ok run that rebuilt a root a and its direct dependency b,
\* the project tag file of a holds the tags generated for a and the cached
\* tag file of b as this run published it, and the cached tag file of a b
\* that re-exports nothing holds the tags generated for b and nothing else;
\* for every num_threads.
C19_RootMergesFreshDependency ==
    \A p \in Procs :
        result[p].tag = "Ok" =>
            \A a \in Range(G.roots) :
                \A b \in Range(dependencies(G, a)) :
                    {a, b} \subseteq Range(plan[p]) =>
                        /\ Range(ctags_output(G, config, a)) \subseteq Range(tags[a].lines)
                        /\ HoldsCachedOf(a, b)
                        /\ G.reexp[b] = {} =>
                             Range(cached[b].lines) = Range(ctags_output(G, config, b))

\* the packages of the project's metadata that depend on each other
CyclePairs ==
    LET packages == Projects[graph].metadata.packages
        names(i) == { packages[i].dependencies[k].name :
                        k \in DOMAIN packages[i].dependencies }
    IN  { ab \in (DOMAIN packages) \X (DOMAIN packages) :
            /\ ab[1] # ab[2]
            /\ packages[ab[2]].name \in names(ab[1])
            /\ packages[ab[1]].name \in names(ab[2]) }

\* C20: for packages a and b that depend on each other dependency_tree
\* returns a tree with one Source for each package and the edges a -> b and
\* b -> a; when a is a workspace member every plan holds both, and a run
\* that returns Ok has published a cached and a project tag file for each.
C20_CycleBuiltAndPublished ==
    \A ab \in CyclePairs :
        LET a == ab[1]
            b == ab[2]
        IN  /\ Len(G.deps) = Len(Projects[graph].metadata.packages)
            /\ b \in Range(G.deps[a]) /\ a \in Range(G.deps[b])
            /\ b \in Range(parents(G, a)) /\ a \in Range(parents(G, b))
            /\ \A p \in Procs :
                 /\ pc[p] \in {"phase1", "phase2", "done"} /\ G.is_root[a] =>
                      /\ {a, b} \subseteq Range(plan[p])
                      /\ CountOf(a, plan[p]) = 1 /\ CountOf(b, plan[p]) = 1
                 /\ result[p].tag = "Ok" /\ {a, b} \subseteq Range(plan[p]) =>
                      /\ Finished(p, a) /\ Finished(p, b)
                      /\ cached[a].exists /\ tags[a].exists
                      /\ cached[b].exists /\ tags[b].exists

\* an Ok run over the cycle with every tag file already there: b is in the
\* plan only as the parent of a, the source outside the cycle is not
C20_Witness ==
    \E p \in Procs :
        /\ graph = 3 /\ CyclePairs # {}
        /\ result[p].tag = "Ok" /\ ~config.force_recreate
        /\ Range(plan[p]) = {1, 2}
        /\ Finished(p, 1) /\ Finished(p, 2)

\* every SourceId the tree mentions
MentionedIds(tree) ==
    Range(tree.roots)
      \cup UNION { Range(tree.deps[s]) : s \in DOMAIN tree.deps }
      \cup UNION { Range(tree.parents[s]) : s \in DOMAIN tree.parents }

\* C21: in the tree dependency_tree returns every SourceId in roots, in a
\* dependencies list or in a parents list is the index of a populated entry
\* of sources, and p is in parents[d] as often as d is in dependencies[p].
C21_IdsValidParentsTransposed ==
    call.fn = "dependency_tree" =>
        /\ DOMAIN ret.deps = DOMAIN ret.sources
        /\ DOMAIN ret.parents = DOMAIN ret.sources
        /\ \A id \in MentionedIds(ret) : id \in DOMAIN ret.sources /\ ret.sources[id]
        /\ \A p, d \in DOMAIN ret.sources :
             CountOf(p, ret.parents[d]) = CountOf(d, ret.deps[p])

\* two packages that depend on each other, the first naming the second twice
C21_Witness ==
    /\ call.fn = "dependency_tree" /\ ~call.omit_deps
    /\ ret.deps = << <<2, 2>>, <<1>> >>
    /\ ret.parents = << <<2>>, <<1, 1>> >>
    /\ ret.sources = << TRUE, TRUE >>

\* C22: in the tree dependency_tree returns no dependencies list and no
\* parents list holds a SourceId twice.
C22_NoDuplicateEdges ==
    call.fn = "dependency_tree" =>
        \A s, x \in DOMAIN ret.sources :
            CountOf(x, ret.deps[s]) <= 1 /\ CountOf(x, ret.parents[s]) <= 1

RECURSIVE ParentClosure(_, _)
\* S and every source that has a source of S in its dependencies, and so on
ParentClosure(tree, S) ==
    LET n == S \cup UNION { Range(tree.parents[s]) : s \in S }
    IN  IF n = S THEN S ELSE ParentClosure(tree, n)

\* the transitive parents of s: its parents, their parents, and so on; s
\* itself is among them when it lies on a cycle
TransitiveParents(tree, s) == ParentClosure(tree, Range(tree.parents[s]))

\* C23 as stated: DepTree::ancestors returns every transitive parent of the
\* given sources, each once.
C23_AllTransitiveParentsOnce ==
    call.fn = "ancestors" =>
        /\ Range(ret.ancestor_srcs)
             = UNION { TransitiveParents(call.tree, s) : s \in Range(call.sources) }
        /\ Len(ret.ancestor_srcs) = Cardinality(Range(ret.ancestor_srcs))

\* C23 amended: DepTree::ancestors returns, each once and in ascending order
\* of SourceId, the transitive parents of every given source other than that
\* source itself.
C23_TransitiveParentsButSelf ==
    call.fn = "ancestors" =>
        /\ Range(ret.ancestor_srcs)
             = UNION { TransitiveParents(call.tree, s) \ {s} : s \in Range(call.sources) }
        /\ Len(ret.ancestor_srcs) = Cardinality(Range(ret.ancestor_srcs))
        /\ \A i, j \in DOMAIN ret.ancestor_srcs :
             i < j => ret.ancestor_srcs[i] < ret.ancestor_srcs[j]

\* the cycle 1 -> 2 -> 1 with 3 depending on both: the ancestors of 1 are 2
\* and 3, the latter found along two paths
C23_Witness ==
    /\ call.fn = "ancestors"
    /\ call.sources = <<1>>
    /\ call.tree.parents = << <<2, 3>>, <<1, 3>>, << >> >>
    /\ ret.ancestor_srcs = <<2, 3>>

\* the tag tool has written all of s's temporary tag file in this run
Generated(p, s) == tmp_src[p][s].exists /\ tmp_src[p][s].complete

\* C24: the steps of a selected source come in the order generate, merge and
\* rename the cached tag file, merge and rename the project tag file; the
\* project tag file is not published unless the cached one was published in
\* the same run; a source that is not selected has none of the steps.
C24_StepsInOrder ==
    \A p \in Procs :
        /\ \A s \in Sources :
             /\ s \in begun[p] => Generated(p, s)
             /\ published[p][s].cached >= 1 => s \in begun[p]
             /\ published[p][s].tags >= 1 => published[p][s].cached >= 1
             /\ s \notin Range(plan[p]) =>
                  /\ tmp_src[p][s] = NoFile /\ s \notin begun[p]
                  /\ published[p][s] = [ cached |-> 0, tags |-> 0 ]
        /\ \A w \in Threads :
             LET job == workers[p][w]
             IN  /\ job.st \notin {"idle", "dead"} => job.src \in Range(plan[p])
                 /\ job.st \in {"cached_merge", "cached_written"} =>
                      /\ Generated(p, job.src)
                      /\ published[p][job.src] = [ cached |-> 0, tags |-> 0 ]
                 /\ job.st \in {"cached_moved", "project_merge", "project_written"} =>
                      published[p][job.src] = [ cached |-> 1, tags |-> 0 ]

\* a run in which the work on one source failed after its cached tag file
\* was published, while another source went through all its steps and a
\* third was not selected
C24_Witness ==
    \E p \in Procs :
        /\ pc[p] = "done"
        /\ \E s \in Range(plan[p]) : published[p][s] = [ cached |-> 1, tags |-> 0 ]
        /\ \E s \in Range(plan[p]) : Finished(p, s)
        /\ \E s \in Sources : s \notin Range(plan[p])

\* the lines of the files given to merge_tags that are neither empty nor
\* begin with '!'
TagLinesRead ==
    { l \in Range(call.lib_lines) \cup UNION { Range(call.dep_lines[i]) :
                                                 i \in DOMAIN call.dep_lines } :
        ~IsEmptyLine(l) /\ ~IsHeader(l) }

C26_MissingDependencySkipped ==
    /\ \A s \in Sources : \A d \in Range(dependencies(G, s)) :
         ~cached[d].exists =>
             /\ d \notin Range(existing_cached(dependencies(G, s)))
             /\ d \notin Range(existing_cached(
                                 SelectSeq(dependencies(G, s), LAMBDA x : x \in G.reexp[s])))
    /\ \A p \in Procs :
         /\ \A w \in Threads :
              LET job == workers[p][w]
              IN  (config.kind = "Emacs" /\ job.st \notin {"idle", "dead", "ctags"}) =>
                      \A d \in Range(dependencies(G, job.src)) :
                          ~cached[d].exists => IncludeLine(d) \notin Range(job.full)
         /\ (pc[p] = "done" /\ first_err[p] = 0) =>
              /\ result[p].tag = "Ok"
              /\ \A s \in Range(plan[p]) : Finished(p, s)

\* a run returned Ok after publishing the project tag file of a source
\* without the include line of one of its dependencies, whose cached tag
\* file did not exist yet when the source was merged
C26_Witness ==
    \E p \in Procs :
        /\ config.kind = "Emacs" /\ result[p].tag = "Ok"
        /\ \E s \in Range(plan[p]) : \E d \in Range(dependencies(G, s)) :
             /\ d # s /\ Finished(p, s)
             /\ tags[s].by = Me(p) /\ cached[s].by = Me(p)
             /\ IncludeLine(d) \notin Range(tags[s].lines)

\* C27 as stated: create_tags returns an error exactly when the tool cannot
\* be started or does not exit successfully; when it does not exit
\* successfully the error carries the tool's stderr, and the message of a
\* failure without output only when stderr and stdout are both empty.
C27_ErrorCarriesStderr ==
    call.fn = "create_tags" =>
        LET output == call.output
        IN  /\ ret.tag = "Err" <=> (~output.spawned \/ ~output.success)
            /\ ret.tag = "Ok" <=> (output.spawned /\ output.success)
            /\ (output.spawned /\ ~output.success) =>
                 IF output.stderr = << >> /\ output.stdout = << >>
                 THEN ret.msg = SilentFailure
                 ELSE ret.msg = from_utf8_lossy(output.stderr)

\* C27 as amended: the error carries the tool's stderr when that is not
\* empty, else the tool's stdout when that is not empty, else the message
\* of a failure without output.
C27_ErrorCarriesStderrOrStdout ==
    call.fn = "create_tags" =>
        LET output == call.output
        IN  /\ ret.tag = "Err" <=> (~output.spawned \/ ~output.success)
            /\ ret.tag = "Ok" <=> (output.spawned /\ output.success)
            /\ (output.spawned /\ ~output.success) =>
                 /\ output.stderr # << >> => ret.msg = from_utf8_lossy(output.stderr)
                 /\ (output.stderr = << >> /\ output.stdout # << >>) =>
                      ret.msg = from_utf8_lossy(output.stdout)
                 /\ ret.msg = SilentFailure <=>
                      (output.stderr = << >> /\ output.stdout = << >>)
            /\ ~output.spawned => ret.msg # SilentFailure

\* the tool failed and wrote to stdout only
C27_Witness ==
    /\ call.fn = "create_tags"
    /\ call.output.spawned /\ ~call.output.success
    /\ call.output.stderr = << >> /\ call.output.stdout = <<"o", "e">>
    /\ ret = [ tag |-> "Err", msg |-> <<"o", "e">> ]

\* the tag tool failed on a selected source in p's run: the first failure of
\* the run is that of a source whose temporary tag file was never finished
GenerationFailed(p) == first_err[p] # 0 /\ ~Generated(p, first_err[p])

\* C28: once tag generation has failed for a selected source, the run starts
\* no merge, renames nothing onto a cached or project tag file, so that no
\* final tag file is the work of this run, and it ends with an error.
C28_GenerationFailureWritesNothing ==
    \A p \in Procs :
        GenerationFailed(p) =>
            /\ pc[p] # "phase2" /\ begun[p] = {} /\ overwrote[p] = {}
            /\ \A w \in Threads :
                 workers[p][w].st \in {"idle", "dead", "ctags"}
            /\ \A s \in Sources :
                 /\ published[p][s] = [ cached |-> 0, tags |-> 0 ]
                 /\ cached[s].by # Me(p) /\ tags[s].by # Me(p)
            /\ pc[p] = "done" => result[p].tag \in {"Err", "panic"}

\* a run with a pool ended after the tool failed on the source taken first
\* and succeeded on one taken later, with final files there before the run
C28_Witness ==
    \E p \in Procs :
        /\ pc[p] = "done" /\ UsesPool(config) /\ GenerationFailed(p)
        /\ Len(plan[p]) >= 2 /\ first_err[p] = plan[p][1]
        /\ \E s \in Range(plan[p]) : Generated(p, s)
        /\ \E s \in Range(plan[p]) : cached[s].exists /\ tags[s].exists

\* the sources of the first n places of p's plan
Handled(p, n) == { plan[p][i] : i \in 1..n }

\* C29: every Config has num_threads >= 1 and is not verbose when quiet; with
\* verbose set or num_threads = 1 update_tags has no pool, at most one source
\* is being worked on at any time, and in each of its two loops the sources
\* are taken in the order of the plan, each after the one before it is done.
C29_SerialInPlanOrder ==
    /\ config.num_threads >= 1
    /\ config.quiet => ~config.verbose
    /\ (config.verbose \/ config.num_threads = 1) =>
         /\ ~UsesPool(config) /\ Pool(config) = {1}
         /\ \A p \in Procs :
              /\ Cardinality(Busy(p)) <= 1
              /\ \A w \in Threads : w # 1 => workers[p][w] = Idle
              /\ pc[p] \in {"phase1", "phase2", "done"} =>
                   LET n == next_job[p] - 1
                   IN  /\ pc[p] = "phase1" =>
                            { s \in Sources : Generated(p, s) } \subseteq Handled(p, n)
                       /\ pc[p] = "phase2" => begun[p] = Handled(p, n)
                       /\ \A i \in 1..n :
                            \/ i = n /\ (Busy(p) # {} \/ first_err[p] = plan[p][i])
                            \/ /\ Generated(p, plan[p][i])
                               /\ pc[p] = "phase2" => Finished(p, plan[p][i])
                       /\ \A w \in Busy(p) : n >= 1 /\ workers[p][w].src = plan[p][n]

\* a verbose run is working on the second of three selected sources, the
\* first of which is published and the third not begun
C29_Witness ==
    \E p \in Procs :
        /\ config.verbose /\ pc[p] = "phase2" /\ Len(plan[p]) = 3
        /\ next_job[p] = 3 /\ Busy(p) = {1}
        /\ Finished(p, plan[p][1]) /\ plan[p][3] \notin begun[p]

\* C30: the lock file of a source is there as long as a live process holds
\* SourceLock::Locked for it: no other process's drop deletes it (a dropped
\* Locked handle removes its own file, a dropped AlreadyLocked handle
\* removes nothing).
C30_HeldLockFileNotDeleted ==
    \A p \in Procs : handle[p].st = "Locked" => handle[p].src \in lock_files

\* the places of the targets with a kind that is "bin", contains "lib", is
\* "proc-macro" or is "test"
AcceptableTargets(package) ==
    { i \in DOMAIN package.targets :
        \E k \in DOMAIN package.targets[i].kind :
            LET kind_str == package.targets[i].kind[k]
            IN  \/ kind_str \in {"bin", "proc-macro", "test"}
                \/ contains_lib(kind_str) }

\* a package with all its keys, whose targets have theirs, and whose
\* directories exist
WellFormed(package) ==
    /\ {"targets", "manifest_path"} \subseteq DOMAIN package
    /\ package.manifest_path.is_dir
    /\ \A i \in DOMAIN package.targets :
         /\ {"kind", "src_path"} \subseteq DOMAIN package.targets[i]
         /\ package.targets[i].src_path.form # "abs_missing"

\* C31: a package gets a source directory exactly when one of its targets
\* has a kind that is "bin", contains "lib", is "proc-macro" or is "test",
\* and the first such target gives the directory; a package without such a
\* target gets no Source, is in no dependency list, and dependency_tree
\* does not fail because of it.
C31_SourceIffAcceptableTarget ==
    /\ (call.fn = "source_path" /\ WellFormed(call.package)) =>
         LET acceptable == AcceptableTargets(call.package)
             first == CHOOSE i \in acceptable : \A j \in acceptable : i <= j
         IN  /\ ret.is # "Err"
             /\ ret.is = "Some" <=> acceptable # {}
             /\ ret.is = "Some" =>
                  ret.dir = target_dir(call.package.targets[first],
                                       call.package.manifest_path).dir
    /\ (call.fn = "dependency_tree"
          /\ {"packages", "workspace_members"} \subseteq DOMAIN call.metadata
          /\ \A i \in DOMAIN call.metadata.packages :
               /\ DOMAIN call.metadata.packages[i] = DOMAIN Pkg(1, << >>)
               /\ WellFormed(call.metadata.packages[i])) =>
         /\ ret.is = "Ok"
         /\ \A i \in DOMAIN call.metadata.packages :
              AcceptableTargets(call.metadata.packages[i]) = {} =>
                  call.metadata.packages[i].manifest_path.dir \notin Range(ret.dir)

\* the package has name and version and the requirement matches it
Matches(package, source_req) ==
    /\ {"name", "version"} \subseteq DOMAIN package
    /\ package.name = source_req.name /\ package.version \in source_req.req

\* the places of the packages find_package looks at for the requirement:
\* all up to the first that matches
Passed(source_req, packages) ==
    { i \in DOMAIN packages : \A j \in 1..(i - 1) : ~Matches(packages[j], source_req) }

\* the package the requirement selects, or 0
Selected(source_req, packages) ==
    LET hits == { i \in Passed(source_req, packages) : Matches(packages[i], source_req) }
    IN  IF hits = {} THEN 0 ELSE CHOOSE i \in hits : TRUE

\* some package find_package looks at lacks name or version
LacksNameOrVersion(source_req, packages) ==
    \E i \in Passed(source_req, packages) :
        ~({"name", "version"} \subseteq DOMAIN packages[i])

\* the target's src_path leads to no directory
NoDirectory(target, package) ==
    \/ target.src_path.form = "abs_missing"
    \/ target.src_path.form = "relative" /\ ~package.manifest_path.is_dir

\* the package lacks any of the keys of the claim, or one of its targets
\* lacks kind or src_path, or a target of an accepted kind leads to no
\* directory
LacksAnyKey(package, is_root) ==
    \/ DOMAIN package # DOMAIN Pkg(1, << >>)
    \/ \E i \in DOMAIN package.targets :
         LET target == package.targets[i]
         IN  \/ DOMAIN target # {"kind", "src_path"}
             \/ /\ \E k \in DOMAIN target.kind : accepted_kind(target.kind[k], is_root)
                /\ NoDirectory(target, package)

\* the first target of an accepted kind, among targets that all have a kind
FirstAccepted(package, is_root) ==
    LET acc == { i \in DOMAIN package.targets :
                   /\ \A j \in 1..i : "kind" \in DOMAIN package.targets[j]
                   /\ \E k \in DOMAIN package.targets[i].kind :
                        accepted_kind(package.targets[i].kind[k], is_root) }
    IN  IF acc = {} THEN 0 ELSE CHOOSE i \in acc : \A j \in acc : i <= j

\* the package lacks a key build_dep_tree reads in it: targets or
\* manifest_path; kind in a target before or at the first target of an
\* accepted kind; src_path in that target, or a directory behind it;
\* dependencies when omit_deps is not set and the package has a source
LacksKeyRead(package, is_root, omit_deps) ==
    \/ ~({"targets", "manifest_path"} \subseteq DOMAIN package)
    \/ LET first == FirstAccepted(package, is_root)
       IN  \/ \E i \in DOMAIN package.targets :
                /\ "kind" \notin DOMAIN package.targets[i]
                /\ \A j \in 1..(i - 1) :
                     /\ "kind" \in DOMAIN package.targets[j]
                     /\ \A k \in DOMAIN package.targets[j].kind :
                          ~accepted_kind(package.targets[j].kind[k], is_root)
           \/ /\ first # 0
              /\ \/ "src_path" \notin DOMAIN package.targets[first]
                 \/ NoDirectory(package.targets[first], package)
                 \/ ~omit_deps /\ "dependencies" \notin DOMAIN package

\* the requirement of the first workspace member, the package it selects,
\* and the packages selected by the dependencies of that one
FirstMember == call.metadata.workspace_members[1]

FirstPackage == Selected(FirstMember, call.metadata.packages)

\* C32 as stated: when the metadata lacks "packages" or "workspace_members",
\* or a package looked at lacks name or version, or a package selected
\* lacks any of targets, manifest_path, dependencies, a target's kind or
\* src_path, or has a target of an accepted kind without a directory,
\* dependency_tree returns an error and no DepTree.
C32_AnyMissingKeyIsAnError ==
    call.fn = "dependency_tree" =>
        \/ ret = NoTree
        \/ /\ {"packages", "workspace_members"} \subseteq DOMAIN call.metadata
           /\ ~LacksNameOrVersion(FirstMember, call.metadata.packages)
           /\ FirstPackage # 0 =>
                ~LacksAnyKey(call.metadata.packages[FirstPackage], TRUE)

\* C32 as amended: the same for the keys build_dep_tree reads, in the
\* package of the first workspace member and, when omit_deps is not set, in
\* the packages its dependencies select.
C32_MissingKeyReadIsAnError ==
    call.fn = "dependency_tree" =>
        \/ ret = NoTree
        \/ /\ ret.is = "Ok"
           /\ {"packages", "workspace_members"} \subseteq DOMAIN call.metadata
           /\ ~LacksNameOrVersion(FirstMember, call.metadata.packages)
           /\ FirstPackage # 0 =>
                LET packages == call.metadata.packages
                    package  == packages[FirstPackage]
                IN  /\ ~LacksKeyRead(package, TRUE, call.omit_deps)
                    /\ (~call.omit_deps /\ FirstAccepted(package, TRUE) # 0) =>
                         \A d \in DOMAIN package.dependencies :
                             LET dep == package.dependencies[d]
                                 sel == Selected(dep, packages)
                             IN  /\ ~LacksNameOrVersion(dep, packages)
                                 /\ (sel # 0 /\ sel # FirstPackage) =>
                                      ~LacksKeyRead(packages[sel], FALSE, FALSE)

\* the first member's package is as cargo prints it and depends on a package
\* whose lib target leads to no directory: no DepTree
C32_Witness ==
    /\ call.fn = "dependency_tree" /\ ~call.omit_deps
    /\ {"packages", "workspace_members"} \subseteq DOMAIN call.metadata
    /\ call.metadata.workspace_members = Members(<<1>>)
    /\ call.metadata.packages[1] = Pkg(1, <<2>>)
    /\ "targets" \in DOMAIN call.metadata.packages[2]
    /\ call.metadata.packages[2].targets
         = << [ Target(<<"lib">>, 2) EXCEPT !.src_path.form = "abs_missing" ] >>
    /\ ret = NoTree

\* the package of the metadata that has a target in directory d
PackageOfDir(metadata, d) ==
    CHOOSE package \in Range(metadata.packages) :
        /\ "targets" \in DOMAIN package
        /\ \E i \in DOMAIN package.targets :
             /\ "src_path" \in DOMAIN package.targets[i]
             /\ package.targets[i].src_path.dir = d

\* every requirement of the metadata: of the members and of the packages
AllReqs(metadata) ==
    Range(metadata.workspace_members)
      \cup UNION { Range(package.dependencies) :
                   package \in { q \in Range(metadata.packages) :
                                   "dependencies" \in DOMAIN q } }

\* C33: in the tree dependency_tree returns no two SourceIds are of the same
\* package (name and version); a SourceId allocated later for a name
\* answers a requirement that no version allocated before satisfies; and
\* the directory of every Source is the one source_path gave when the
\* Source was made, as root or not.
C33_OneSourcePerPackage ==
    (call.fn = "dependency_tree" /\ ret.is = "Ok") =>
        LET package(s) == PackageOfDir(call.metadata, ret.dir[s])
        IN  /\ DOMAIN ret.dir = DOMAIN ret.sources
            /\ DOMAIN ret.is_root = DOMAIN ret.sources
            /\ \A a, b \in DOMAIN ret.sources :
                 a < b =>
                   /\ ret.dir[a] # ret.dir[b]
                   /\ ~(/\ package(a).name = package(b).name
                        /\ package(a).version = package(b).version)
            /\ \A b \in DOMAIN ret.sources :
                 LET before == { a \in 1..(b - 1) : package(a).name = package(b).name }
                 IN  before # {} =>
                       \E r \in AllReqs(call.metadata) :
                           /\ r.name = package(b).name
                           /\ package(b).version \in r.req
                           /\ \A a \in before : package(a).version \notin r.req
            /\ \A s \in DOMAIN ret.sources :
                 source_path(package(s), ret.is_root[s])
                   = [ is |-> "Some", dir |-> ret.dir[s] ]

\* package 1 requires package 2 twice, first in version 2 and then in any
\* version: one Source for package 2, used twice
C33_Witness ==
    /\ call.fn = "dependency_tree" /\ ~call.omit_deps /\ ret.is = "Ok"
    /\ call.metadata.workspace_members = <<Req(1)>>
    /\ call.metadata.packages[1].dependencies
         = << [ name |-> 2, req |-> {2} ], [ name |-> 2, req |-> {1, 2} ] >>
    /\ call.metadata.packages[2].version = 1
    /\ ret.dir = <<11, 22>>
    /\ ret.deps = << <<2, 2>>, << >> >>

\* the sources update_tags selects in the tree `g` when no file is missing
\* and force_recreate is not set: the roots and their ancestors
SelectedWithAllFiles(g) ==
    LET present == [ s \in DOMAIN g.sources |-> OldFile("Vi") ]
        cfg     == [ kind |-> "Vi", num_threads |-> 1, force_recreate |-> FALSE,
                     tool_sorts |-> TRUE ]
    IN  Range(selected_sources(g, cfg, present, present))

\* C34: in every tree dependency_tree builds, two distinct selected sources
\* of equal max_depth are not joined by a dependency edge.
C34_EqualDepthNoEdge ==
    (call.fn = "dependency_tree" /\ ret.is = "Ok") =>
        \A a, b \in SelectedWithAllFiles(ret) :
            (a # b /\ max_depth(ret, a) = max_depth(ret, b)) =>
                b \notin Range(ret.deps[a]) /\ a \notin Range(ret.deps[b])

\* C35: with a thread pool, when the merge of any source has started the tag
\* tool has finished on every selected source and runs on none, and a
\* thread that merges reads a temporary tag file the tool wrote completely.
C35_GenerationBeforeAnyMerge ==
    UsesPool(config) =>
        \A p \in Procs :
            (\/ pc[p] = "phase2" \/ begun[p] # {}
             \/ \E w \in Threads : workers[p][w].st \notin {"idle", "dead", "ctags"}) =>
                /\ \A s \in Range(plan[p]) :
                     /\ Generated(p, s)
                     /\ tmp_src[p][s].lines = ctags_output(G, config, s)
                /\ \A w \in Threads : workers[p][w].st # "ctags"

\* with a pool of two threads, both are merging while every one of three
\* selected sources has its generated tags
C35_Witness ==
    \E p \in Procs :
        /\ UsesPool(config) /\ pc[p] = "phase2" /\ Len(plan[p]) = 3
        /\ \A w \in Pool(config) : workers[p][w].st = "cached_merge"
        /\ \A s \in Range(plan[p]) : Generated(p, s)

\* the dependency tag files in the opposite order
Reversed(fs) == [ i \in DOMAIN fs |-> fs[Len(fs) + 1 - i] ]

\* C36: the output of a Vi merge with dependency tag files, merged again
\* with the same dependency tag files, yields the same bytes, and the merge
\* with the dependency tag files in the opposite order yields the same bytes.
C36_MergeIdempotentAndOrderIndependent ==
    call.fn = "merge_tags_contents" =>
        /\ merge_tags_contents(ret.contents, call.dep_contents) = ret.contents
        /\ merge_tags_contents(call.lib_contents, Reversed(call.dep_contents))
             = ret.contents

\* the names of the workspace members of the project
MemberNames ==
    LET members == Projects[graph].metadata.workspace_members
    IN  { members[i].name : i \in DOMAIN members }

\* C37: in a project whose tree is built with omit_deps the sources are the
\* workspace members, each a root without dependencies and without parents;
\* a run plans roots only, every file a thread writes is a copy of the
\* source's own tags, so no cached tag file is read, and the tag files that
\* exist or are written are those of the workspace members.
C37_OmitDepsRootsOnly ==
    Projects[graph].omit_deps =>
        /\ Sources = MemberNames
        /\ Sources = Range(G.roots)
        /\ \A s \in Sources :
             /\ G.is_root[s]
             /\ dependencies(G, s) = << >>
             /\ parents(G, s) = << >>
        /\ DOMAIN cached = MemberNames /\ DOMAIN tags = MemberNames
        /\ \A p \in Procs :
             /\ Range(plan[p]) \subseteq Range(G.roots)
             /\ \A w \in Threads :
                  workers[p][w].st \in {"cached_merge", "cached_written", "project_merge",
                                        "project_written"} =>
                      workers[p][w].full = tmp_src[p][workers[p][w].src].lines
             /\ \A s \in Sources :
                  /\ (cached[s].exists /\ cached[s].by = Me(p)) =>
                       cached[s].lines = ctags_output(G, config, s)
                  /\ (tags[s].exists /\ tags[s].by = Me(p)) =>
                       tags[s].lines = ctags_output(G, config, s)

\* a run over the project built with omit_deps returned Ok after it
\* published both files of both workspace members; member 1, which
\* depends on member 2 and re-exports it, got its own tags only
C37_Witness ==
    \E p \in Procs :
        /\ Projects[graph].omit_deps /\ result[p].tag = "Ok"
        /\ Range(plan[p]) = {1, 2}
        /\ Finished(p, 1) /\ Finished(p, 2)
        /\ cached[1].by = Me(p) /\ tags[1].by = Me(p)
        /\ config.kind = "Vi" /\ config.tool_sorts
        /\ tags[1].lines = Headers \o <<3, 4>>

\* C38: with RUST_SRC_PATH naming a directory, update_std_lib_tags calls
\* the tag tool unless the tag file it would write is a file and
\* force_recreate is not set, on the candidate subdirectories that exist and
\* no other, for a tag file in the --output-dir-std directory when one is
\* given and in the source path otherwise; with RUST_SRC_PATH unset it calls
\* no tool and returns Ok.
C38_StdLibTags ==
    call.fn = "update_std_lib_tags" =>
        LET tags_dir == IF call.output_dir_std.is = "Some" THEN call.output_dir_std.dir
                        ELSE "rust_src_path"
        IN  /\ call.RUST_SRC_PATH = "unset" =>
                 ret.result = "Ok" /\ ~ret.create_tags_called
            /\ call.RUST_SRC_PATH = "dir" =>
                 /\ ret.create_tags_called <=>
                      (~call.is_file[tags_dir] \/ call.force_recreate)
                 /\ ret.create_tags_called =>
                      /\ Range(ret.src_dirs) = Range(possible_src_dirs) \cap call.dirs
                      /\ ret.tags_file.dir = tags_dir

============================================================================
